---- MODULE Spec2Model ----
(***************************************************************************)
(* Model of the Qase synchronisation scripts (sync-to-qase.js,              *)
(* sync-single-case.js, sync-from-qase.js and the helpers they call).  A   *)
(* run of main() is a sequence of steps, one per remote request; the       *)
(* remote repository is a pair of record lists.                            *)
(***************************************************************************)
EXTENDS Integers, Sequences, FiniteSets, TLC

\* ------------------------------------------------------------------ bounds
\* number of remote requests that may be rejected over the whole behaviour
MaxFailures == 1
\* number of times the sync command is invoked on the same source text
MaxRuns == 2

\* --------------------------------------------------------------- constants
\* JavaScript null / a missing id (every falsy id is treated alike)
Null == 0

\* Text is modelled as a sequence of atoms: a word, a blank, or one of the
\* three separators parseSuitePath knows (" / ", " > ", tab).
SLASH == " / "
GT == " > "
TAB == "\t"
SP == " "

ID1 == "TC-API-SYNC-001"
ID2 == "TC-API-SYNC-002"
ID9 == "TC-API-SYNC-009"

\* ------------------------------------------------------------ text helpers
Includes(s, a) == \E i \in 1..Len(s) : s[i] = a

RECURSIVE Split(_, _)
\* String.prototype.split on one separator atom; "".split(sep) is [""]
Split(s, sep) ==
  IF ~Includes(s, sep) THEN <<s>>
  ELSE LET k == CHOOSE i \in 1..Len(s) :
                  s[i] = sep /\ \A j \in 1..(i - 1) : s[j] # sep
       IN <<SubSeq(s, 1, k - 1)>> \o Split(SubSeq(s, k + 1, Len(s)), sep)

RECURSIVE Trim(_)
\* String.prototype.trim: white space at both ends is dropped, also the blanks
\* that are part of a separator atom
Trim(s) ==
  IF s = <<>> THEN s
  ELSE IF Head(s) \in {SP, TAB, "\n"} THEN Trim(Tail(s))
  ELSE IF Head(s) = SLASH THEN Trim(<<"/", SP>> \o Tail(s))
  ELSE IF Head(s) = GT THEN Trim(<<">", SP>> \o Tail(s))
  ELSE IF s[Len(s)] \in {SP, TAB, "\n"} THEN Trim(SubSeq(s, 1, Len(s) - 1))
  ELSE IF s[Len(s)] = SLASH THEN Trim(SubSeq(s, 1, Len(s) - 1) \o <<SP, "/">>)
  ELSE IF s[Len(s)] = GT THEN Trim(SubSeq(s, 1, Len(s) - 1) \o <<SP, ">">>)
  ELSE s

RECURSIVE MapTrim(_)
MapTrim(ps) == IF ps = <<>> THEN <<>> ELSE <<Trim(Head(ps))>> \o MapTrim(Tail(ps))

NonEmpty(p) == Len(p) > 0

\* parseSuitePath of sync-to-qase.js: tab wins over " > ", which wins over " / "
parseSuitePath(suitePath) ==
  IF suitePath = <<>> THEN <<>>
  ELSE LET separator == IF Includes(suitePath, TAB) THEN TAB
                        ELSE IF Includes(suitePath, GT) THEN GT
                        ELSE SLASH
       IN SelectSeq(MapTrim(Split(suitePath, separator)), NonEmpty)

RECURSIVE Join(_, _)
\* Array.prototype.join with a separator atom
Join(parts, sep) ==
  IF parts = <<>> THEN <<>>
  ELSE IF Len(parts) = 1 THEN Head(parts)
  ELSE Head(parts) \o <<sep>> \o Join(Tail(parts), sep)

RECURSIVE JoinPath(_)
\* the join of extractNestedDescribePath: names separated by " / "
JoinPath(names) ==
  IF names = <<>> THEN <<>>
  ELSE IF Len(names) = 1 THEN Head(names)
  ELSE Head(names) \o <<SLASH>> \o JoinPath(Tail(names))

\* the full title scanTestFiles builds: "<id>: <title>" followed by the tags
fullTitle(testId, title, tags) == <<testId, ": ", title>> \o tags

\* one record of scanTestFiles' result (the fields the sync reads); groups is
\* the list of enclosing test.describe names the parser found, outermost first
TestCase(testId, title, qaseId, groups) ==
  [id |-> testId, title |-> fullTitle(testId, title, <<>>), qase_id |-> qaseId,
   groups |-> groups, suite |-> JoinPath(groups)]

\* a remote case record, and the absent one
RemoteCase(id, title, customId, suiteId) ==
  [id |-> id, title |-> title, custom_id |-> customId, suite_id |-> suiteId]
NoCase == RemoteCase(Null, <<>>, "", Null)

\* a remote suite record
Suite(id, title, parentId) == [id |-> id, title |-> title, parent_id |-> parentId]

Max(S) == CHOOSE m \in S : \A x \in S : x <= m


\* ------------------------------------------------- getExistingCases' indices
\* titleMap: a later record with the same title replaces an earlier one;
\* records with an empty title are not indexed
titleMapOf(allCases) ==
  [t \in {allCases[i].title : i \in DOMAIN allCases} \ {<<>>} |->
     allCases[Max({i \in DOMAIN allCases : allCases[i].title = t})]]

\* qaseIdMap: records with a falsy id are not indexed
qaseIdMapOf(allCases) ==
  [n \in {allCases[i].id : i \in DOMAIN allCases} \ {Null} |->
     allCases[Max({i \in DOMAIN allCases : allCases[i].id = n})]]

\* ------------------------------------------------------- the log of a run
\* One entry per remote request and per console message, in program order.
Event ==
  [kind |-> "", method |-> "", endpoint |-> "", id |-> Null, suite_id |-> Null,
   tests |-> <<>>, title |-> <<>>, ok |-> TRUE, path |-> <<>>, posts |-> 0,
   prior |-> Null, priorRun |-> 0, ms |-> 0]

\* qaseApiRequest: the request as the scripts issue it
qaseApiRequest(method, endpoint, ok) ==
  [Event EXCEPT !.kind = "request", !.method = method, !.endpoint = endpoint,
                !.ok = ok]

\* await new Promise(resolve => setTimeout(resolve, ms))
Delay(ms) == [Event EXCEPT !.kind = "delay", !.ms = ms]

\* a console message about one test or one group
Console(kind, tests) == [Event EXCEPT !.kind = kind, !.tests = tests]

\* ------------------------------------------------------ main: the matching
\* rule 1 of the loop: the local qase.id() value, when the remote set has it
matchByQaseId(tc, qaseIdMap) ==
  IF tc.qase_id # Null /\ tc.qase_id \in DOMAIN qaseIdMap
  THEN qaseIdMap[tc.qase_id] ELSE NoCase

\* rule 2 of the loop: the full title, only when rule 1 found nothing
matchTitleFirst(tc, titleMap, qaseIdMap) ==
  IF tc.title \in DOMAIN titleMap THEN titleMap[tc.title]
  ELSE matchByQaseId(tc, qaseIdMap)

matchCase(tc, titleMap, qaseIdMap) ==
  LET byId == matchByQaseId(tc, qaseIdMap)
  IN IF byId = NoCase /\ tc.title \in DOMAIN titleMap
     THEN titleMap[tc.title] ELSE byId

noWarnings(k, tc, titleMap, qaseIdMap) == <<>>

\* the console.warn calls of the loop for test number k
matchWarnings(k, tc, titleMap, qaseIdMap) ==
  LET stale == tc.qase_id # Null /\ tc.qase_id \notin DOMAIN qaseIdMap
      byTitle == matchByQaseId(tc, qaseIdMap) = NoCase
                 /\ tc.title \in DOMAIN titleMap
  IN (IF stale THEN <<Console("warnMissing", <<k>>)>> ELSE <<>>)
     \o (IF byTitle /\ tc.qase_id # Null
         THEN <<Console("warnMismatch", <<k>>)>> ELSE <<>>)

RECURSIVE toUpdateOf(_, _, _, _)
\* the update list: the tests with a match, in source order, from test k on
toUpdateOf(tcs, k, titleMap, qaseIdMap) ==
  IF k > Len(tcs) THEN <<>>
  ELSE LET matched == matchCase(tcs[k], titleMap, qaseIdMap)
       IN (IF matched # NoCase
           THEN <<[testCase |-> k, existing |-> matched]>> ELSE <<>>)
          \o toUpdateOf(tcs, k + 1, titleMap, qaseIdMap)

RECURSIVE toCreateOf(_, _, _, _)
\* the create list: the tests without a match, in source order
toCreateOf(tcs, k, titleMap, qaseIdMap) ==
  IF k > Len(tcs) THEN <<>>
  ELSE (IF matchCase(tcs[k], titleMap, qaseIdMap) = NoCase
        THEN <<[testCase |-> k, existing |-> NoCase]>> ELSE <<>>)
       \o toCreateOf(tcs, k + 1, titleMap, qaseIdMap)

RECURSIVE warningsOf(_, _, _, _)
warningsOf(tcs, k, titleMap, qaseIdMap) ==
  IF k > Len(tcs) THEN <<>>
  ELSE matchWarnings(k, tcs[k], titleMap, qaseIdMap)
       \o warningsOf(tcs, k + 1, titleMap, qaseIdMap)

RECURSIVE groupBySuite(_, _)
\* a grouping with one group per item
groupEach(items, tcs) ==
  [i \in DOMAIN items |->
     [suite |-> tcs[items[i].testCase].suite, items |-> <<items[i]>>]]

\* groupedBySuite / updateGroupedBySuite: one group per distinct suite string,
\* in the order of first appearance (Object.entries of string keys)
groupBySuite(items, tcs) ==
  IF items = <<>> THEN <<>>
  ELSE LET s == tcs[Head(items).testCase].suite
           same(it) == tcs[it.testCase].suite = s
           other(it) == tcs[it.testCase].suite # s
       IN <<[suite |-> s, items |-> SelectSeq(items, same)]>>
          \o groupBySuite(SelectSeq(items, other), tcs)

\* ------------------------------------------------- ensureSuiteHierarchy
\* existingSuites.find: the first suite with the title and the parent; 0 if none
findSuite(existingSuites, suiteName, parentId) ==
  LET hits == {i \in DOMAIN existingSuites :
                 /\ existingSuites[i].title = suiteName
                 /\ \/ existingSuites[i].parent_id = parentId
                    \/ (existingSuites[i].parent_id = Null /\ parentId = Null)}
  IN IF hits = {} THEN 0 ELSE CHOOSE i \in hits : \A j \in hits : i <= j

forgetSuite(existingSuites, suite) == existingSuites

\* existingSuites.push(suite) after a creation
pushSuite(existingSuites, suite) == Append(existingSuites, suite)


\* ---------------------------------------------------------------- state
VARIABLES
  script,          \* the command that is run
  target,          \* sync-single-case: the command-line argument
  testCases,       \* what extract-tests returns for the source text
  remoteSuites,    \* the remote repository: its suites, in id order
  remoteCases,     \* the remote repository: its cases, in id order
  suiteSeq,        \* the last suite id the remote service assigned
  caseSeq,         \* the last case id the remote service assigned
  run,             \* number of the current invocation of the command
  pc,              \* position of main()
  exitCode,        \* exit code of the process ("" while it runs)
  existingSuites,  \* main: the in-memory suite list
  suiteMap,        \* sync-single-case: path -> suite id of ensureSuiteHierarchy
  existingCase,    \* sync-single-case: the remote record getExistingCase found
  titleMap,        \* main: title -> remote case
  qaseIdMap,       \* main: remote id -> remote case
  toUpdate,        \* main: [testCase, existing] pairs to update
  toCreate,        \* main: tests to create
  phase,           \* main: "update" (first loop) or "create" (second loop)
  gi,              \* main: index of the current group of the current loop
  ii,              \* main: index of the current item of the current group
  ens,             \* ensureSuiteHierarchy: suiteNames, i, parentId of the call
  suiteId,         \* main: what ensureSuiteHierarchy returned for the group
  totalUpdated, totalCreated, totalFailed,
  allIdMappings,   \* main: identifier -> [qase_id, suite_path]
  log,             \* requests and console messages of this run, in order
  failures,        \* remote requests rejected so far
  bound,           \* test number -> remote id this run wrote for it (Null: none)
  resolved,        \* path -> [id, run] of the last successful resolution
  prev,            \* summary of the previous run
  source,          \* the test file as its author wrote it: a list of declarations
  fileContent,     \* the text of the test file
  written,         \* the files update-qase-annotations wrote, in order
  lastIndex,       \* scanTestFiles: where idPattern.exec goes on
  extracted,       \* scanTestFiles: testCases
  errors,          \* scanTestFiles: errors
  firstScan,       \* what the scan returned before the file was rewritten
  qaseIdMapping,   \* update-qase-annotations: identifier -> remote id
  arg,             \* the argument of the function that is applied
  result,          \* what the function returned
  options,         \* full-sync: the flags of the command line
  ran,             \* full-sync: the child processes run so far, in order
  offset,          \* getSuites, getExistingCases: the offset of the next page
  allEntities      \* getSuites, getExistingCases: allSuites, allCases

vars ==
  <<script, target, testCases, remoteSuites, remoteCases, suiteSeq, caseSeq, run,
    pc, exitCode, suiteMap, existingCase, existingSuites, titleMap, qaseIdMap,
    toUpdate, toCreate, phase, gi, ii, ens, suiteId, totalUpdated, totalCreated, totalFailed, allIdMappings, log,
    failures, bound, resolved, prev, source, fileContent, written, lastIndex,
    extracted, errors, firstScan, qaseIdMapping, arg, result, options, ran,
    offset, allEntities>>

remote == <<remoteSuites, remoteCases, suiteSeq, caseSeq>>
\* what a sync command, a scan and a function leave alone: their inputs, and
\* the pipeline of full-sync
fixed == <<script, target, testCases, options, ran, offset, allEntities>>
single == <<suiteMap, existingCase>>
parser ==
  <<source, fileContent, written, lastIndex, extracted, errors, firstScan,
    qaseIdMapping, arg, result>>

NoEns == [suiteNames |-> <<>>, i |-> 0, parentId |-> Null, posts |-> 0]
NoPrev == [completed |-> FALSE, allOk |-> FALSE, bound |-> <<>>]
EmptyMap == [x \in {} |-> Null]

\* the groups of the loop main() is in
Groups ==
  IF phase = "update" THEN groupBySuite(toUpdate, testCases)
  ELSE groupBySuite(toCreate, testCases)

RECURSIVE testsOf(_)
testsOf(items) ==
  IF items = <<>> THEN <<>> ELSE <<Head(items).testCase>> \o testsOf(Tail(items))

AllOk(l) == \A i \in DOMAIN l : l[i].ok

\* ----------------------------------------------------------------- inputs
A == <<"A">>
B == <<"B">>
AgtB == <<"A", GT, "B">>
Blank == <<>>

\* the command-line argument of sync-single-case: an identifier, or the remote
\* id in the form <projectCode>-<n>
NoArg == [qaseForm |-> FALSE, text |-> "", n |-> Null]
CustomArg(id) == [qaseForm |-> FALSE, text |-> id, n |-> Null]
QaseArg(n) == [qaseForm |-> TRUE, text |-> "", n |-> n]
Args == {CustomArg(ID1), CustomArg(ID2), CustomArg(ID9), QaseArg(1), QaseArg(2)}

\* the state of a fresh process
InitMemory ==
  /\ run = 1 /\ pc = "main" /\ exitCode = ""
  /\ suiteMap = EmptyMap /\ existingCase = NoCase
  /\ existingSuites = <<>> /\ titleMap = EmptyMap /\ qaseIdMap = EmptyMap
  /\ toUpdate = <<>> /\ toCreate = <<>> /\ phase = "update" /\ gi = 0 /\ ii = 0
  /\ ens = NoEns /\ suiteId = Null
  /\ totalUpdated = 0 /\ totalCreated = 0 /\ totalFailed = 0
  /\ allIdMappings = EmptyMap /\ log = <<>> /\ failures = 0
  /\ bound = <<>> /\ resolved = EmptyMap /\ prev = NoPrev

\* no flag is given and no child process is run
NoOptions ==
  [skipUpdate |-> FALSE, updateOnly |-> FALSE, debug |-> FALSE,
   skipReview |-> FALSE, force |-> FALSE]
NoPaging == offset = 0 /\ allEntities = <<>>
NoPipeline == options = NoOptions /\ ran = <<>> /\ NoPaging

\* no test file is read and no function applied
NoParser ==
  /\ source = <<>> /\ fileContent = <<>> /\ written = <<>> /\ lastIndex = 0
  /\ extracted = <<>> /\ errors = <<>> /\ firstScan = <<>>
  /\ qaseIdMapping = EmptyMap /\ arg = <<>> /\ result = <<>>

\* remote case lists: up to two records; the titles are the full title of the
\* first local test, of the second, or an older title of the first
T1 == fullTitle(ID1, "a", <<>>)
T2 == fullTitle(ID2, "a", <<>>)
Told == fullTitle(ID1, "old", <<>>)

CaseLists ==
  {<<>>}
  \cup {<<RemoteCase(1, t, c, Null)>> : t \in {T1, T2, Told}, c \in {"", ID1}}
  \cup {<<RemoteCase(1, t, c, Null), RemoteCase(2, u, "", Null)>> :
          t \in {T1, T2, Told}, c \in {"", ID1}, u \in {T1, Told}}

\* local test lists for a remote case list of n records: qase.id() absent (Null),
\* the id of the first record, or the id n+1 of a record deleted remotely
TestLists(n) ==
  {<<>>}
  \cup {<<TestCase(ID1, "a", q, <<A>>)>> : q \in {Null, 1, n + 1}}
  \cup {<<TestCase(ID1, "a", Null, <<Blank, Blank>>)>>}
  \cup {<<TestCase(ID1, "a", q, <<A>>), TestCase(ID2, "a", r, <<A, B>>)>> :
          q \in {Null, 1, n + 1}, r \in {Null, 1}}
  \cup {<<TestCase(ID1, "a", q, <<A>>), TestCase(ID1, "a", Null, <<A>>)>> :
          q \in {Null, 1, n + 1}}

\* group lists the parser can report for a test: plain nesting, a name that
\* holds " > ", and two names that are blank after trimming
GroupLists == {<<A>>, <<B>>, <<A, B>>, <<AgtB>>, <<Blank, Blank>>}

\* remote suite lists: none, roots, a child, two roots of one title, and a root
\* whose title holds " > "
SuiteLists ==
  {<<>>, <<Suite(1, A, Null)>>, <<Suite(1, B, Null)>>,
   <<Suite(1, A, Null), Suite(2, B, 1)>>, <<Suite(1, A, Null), Suite(2, B, Null)>>,
   <<Suite(1, A, Null), Suite(2, A, Null)>>, <<Suite(1, AgtB, Null)>>}

\* inputs that vary the tests and the remote cases; no suite exists yet
InitCases ==
  /\ remoteCases \in CaseLists
  /\ caseSeq = Len(remoteCases) + 1
  /\ testCases \in TestLists(Len(remoteCases))
  /\ remoteSuites = <<>> /\ suiteSeq = 0

\* inputs that vary the group nesting of two tests and the remote suites
InitSuites ==
  /\ remoteCases \in {<<>>, <<RemoteCase(1, T1, ID1, Null)>>,
                      <<RemoteCase(1, T1, ID1, Null), RemoteCase(2, T2, ID2, Null)>>}
  /\ caseSeq = Len(remoteCases)
  /\ testCases \in {<<TestCase(ID1, "a", Null, g), TestCase(ID2, "a", Null, h)>> :
                      g \in GroupLists, h \in GroupLists}
  /\ remoteSuites \in SuiteLists
  /\ suiteSeq = Len(remoteSuites)

\* inputs with three new tests, the first and the last in one group, and the
\* second in the same group, in another one or nested below
InitGroups ==
  /\ remoteCases = <<>> /\ caseSeq = 0
  /\ testCases \in {<<TestCase(ID1, "a", Null, <<A>>), TestCase(ID2, "a", Null, h),
                       TestCase(ID9, "a", Null, <<A>>)>> : h \in {<<A>>, <<B>>, <<A, B>>}}
  /\ remoteSuites \in {<<>>, <<Suite(1, A, Null)>>}
  /\ suiteSeq = Len(remoteSuites)

Init ==
  /\ script = "sync-to-qase" /\ target = NoArg
  /\ (InitCases \/ InitSuites \/ InitGroups)
  /\ InitMemory
  /\ NoParser /\ NoPipeline


\* ---------------------------------------------------------------- actions
\* getSuites: every page of GET /suite; an error on any page is caught and the
\* empty list is returned
getSuites ==
  /\ script = "sync-to-qase" /\ pc = "main"
  /\ \/ /\ existingSuites' = remoteSuites
        /\ log' = Append(log, qaseApiRequest("GET", "suite", TRUE))
        /\ UNCHANGED failures
     \/ /\ failures < MaxFailures
        /\ existingSuites' = <<>>
        /\ log' = Append(log, qaseApiRequest("GET", "suite", FALSE))
        /\ failures' = failures + 1
  /\ pc' = "getExistingCases"
  /\ UNCHANGED <<parser, fixed, exitCode, single, remote, run, titleMap, qaseIdMap, toUpdate, toCreate,
                 phase, gi, ii, ens, suiteId, totalUpdated, totalCreated,
                 totalFailed, allIdMappings, bound, resolved, prev>>

\* getExistingCases: every page of GET /case, then the two indices; an error is
\* caught and two empty indices are returned
getExistingCases ==
  /\ pc = "getExistingCases"
  /\ \/ /\ titleMap' = titleMapOf(remoteCases)
        /\ qaseIdMap' = qaseIdMapOf(remoteCases)
        /\ log' = Append(log, qaseApiRequest("GET", "case", TRUE))
        /\ UNCHANGED failures
     \/ /\ failures < MaxFailures
        /\ titleMap' = EmptyMap
        /\ qaseIdMap' = EmptyMap
        /\ log' = Append(log, qaseApiRequest("GET", "case", FALSE))
        /\ failures' = failures + 1
  /\ pc' = "classify"
  /\ UNCHANGED <<parser, fixed, exitCode, single, remote, run, existingSuites, toUpdate, toCreate,
                 phase, gi, ii, ens, suiteId, totalUpdated, totalCreated,
                 totalFailed, allIdMappings, bound, resolved, prev>>

\* main, from the matching loop to the start of the update loop
classify ==
  /\ pc = "classify"
  /\ toUpdate' = toUpdateOf(testCases, 1, titleMap, qaseIdMap)
  /\ toCreate' = toCreateOf(testCases, 1, titleMap, qaseIdMap)
  /\ log' = log \o warningsOf(testCases, 1, titleMap, qaseIdMap)
  /\ bound' = [k \in 1..Len(testCases) |-> Null]
  /\ phase' = "update"
  /\ gi' = 1
  /\ \/ /\ toUpdate' = <<>> /\ toCreate' = <<>>
        /\ pc' = "done" /\ exitCode' = "0"
     \/ /\ ~(toUpdate' = <<>> /\ toCreate' = <<>>)
        /\ pc' = "group" /\ UNCHANGED exitCode
  /\ UNCHANGED <<parser, fixed, single, remote, run, existingSuites, titleMap, qaseIdMap, ii,
                 ens, suiteId, totalUpdated, totalCreated, totalFailed,
                 allIdMappings, failures, resolved, prev>>

keepFailed(failed, items) == failed

\* totalFailed += items.length, for a group whose suite was not resolved
failGroup(failed, items) == failed + Len(items)

\* head of either loop: parseSuitePath, and the empty-path return of
\* ensureSuiteHierarchy
beginGroup ==
  /\ pc = "group"
  /\ gi <= Len(Groups)
  /\ LET g == Groups[gi]
         suiteNames == parseSuitePath(g.suite)
     IN \/ /\ suiteNames = <<>>
           /\ log' = Append(log, [Console("skip", testsOf(g.items))
                                    EXCEPT !.path = g.suite])
           /\ totalFailed' = failGroup(totalFailed, g.items)
           /\ gi' = gi + 1
           /\ UNCHANGED <<pc, ens>>
        \/ /\ suiteNames # <<>>
           /\ ens' = [suiteNames |-> suiteNames, i |-> 1, parentId |-> Null,
                      posts |-> 0]
           /\ pc' = "ensure"
           /\ UNCHANGED <<log, totalFailed, gi>>
  /\ UNCHANGED <<parser, fixed, exitCode, single, remote, run, existingSuites, titleMap, qaseIdMap,
                 toUpdate, toCreate, phase, ii, suiteId, totalUpdated,
                 totalCreated, allIdMappings, failures, bound, resolved, prev>>

\* the end of one iteration of ensureSuiteHierarchy's loop: the suite of this
\* level has the given id; l is the log so far and posts the POSTs of the call
Descend(id, posts, l) ==
  LET path == Groups[gi].suite
  IN IF ens.i = Len(ens.suiteNames)
     THEN /\ suiteId' = id
          /\ ens' = NoEns
          /\ resolved' = (path :> [id |-> id, run |-> run]) @@ resolved
          /\ log' = Append(l, [Event EXCEPT
                 !.kind = "resolved", !.path = path, !.id = id, !.posts = posts,
                 !.prior = IF path \in DOMAIN resolved THEN resolved[path].id
                           ELSE Null,
                 !.priorRun = IF path \in DOMAIN resolved THEN resolved[path].run
                              ELSE 0])
          /\ pc' = IF phase = "update" THEN "items" ELSE "bulk"
          /\ ii' = 1
     ELSE /\ ens' = [ens EXCEPT !.i = @ + 1, !.parentId = id, !.posts = posts]
          /\ log' = l
          /\ UNCHANGED <<suiteId, resolved, pc, ii>>

\* deleteSuite of lib/qase-utils.js: DELETE /suite/<id>; no sync script calls it
deleteSuite(suiteName, parentId, suiteId_, ok) ==
  [qaseApiRequest("DELETE", "suite", ok) EXCEPT !.id = suiteId_]

\* createSuite's request: POST /suite with the title and the parent id
createSuite(suiteName, parentId, newId, ok) ==
  [qaseApiRequest("POST", "suite", ok) EXCEPT
     !.title = suiteName, !.suite_id = parentId, !.id = newId]

\* one level of ensureSuiteHierarchy: find the suite, or create it
ensureSuiteHierarchy ==
  /\ pc = "ensure"
  /\ LET g == Groups[gi]
         suiteName == ens.suiteNames[ens.i]
         f == findSuite(existingSuites, suiteName, ens.parentId)
         newId == suiteSeq + 1
         suite == Suite(newId, suiteName, ens.parentId)
     IN \/ /\ f # 0
           /\ Descend(existingSuites[f].id, ens.posts, log)
           /\ UNCHANGED <<remoteSuites, suiteSeq, existingSuites, failures,
                          totalFailed, gi>>
        \/ /\ f = 0
           /\ remoteSuites' = Append(remoteSuites, suite)
           /\ suiteSeq' = newId
           /\ existingSuites' = pushSuite(existingSuites, suite)
           /\ Descend(newId, ens.posts + 1,
                      Append(log, createSuite(suiteName, ens.parentId, newId, TRUE)))
           /\ UNCHANGED <<failures, totalFailed, gi>>
        \/ /\ f = 0
           /\ failures < MaxFailures
           /\ failures' = failures + 1
           /\ log' = log \o <<createSuite(suiteName, ens.parentId, Null, FALSE),
                              [Console("skip", testsOf(g.items))
                                 EXCEPT !.path = g.suite]>>
           /\ totalFailed' = failGroup(totalFailed, g.items)
           /\ gi' = gi + 1
           /\ ens' = NoEns
           /\ pc' = "group"
           /\ UNCHANGED <<remoteSuites, suiteSeq, existingSuites, suiteId,
                          resolved, ii>>
  /\ UNCHANGED <<parser, fixed, exitCode, single, remoteCases, caseSeq, run, titleMap, qaseIdMap,
                 toUpdate, toCreate, phase, totalUpdated, totalCreated,
                 allIdMappings, bound, prev>>


localIdEntry(existing, tc) == [qase_id |-> tc.qase_id, suite_path |-> tc.suite]

\* the entry main() records in allIdMappings after a successful update
idMappingEntry(existing, tc) == [qase_id |-> existing.id, suite_path |-> tc.suite]

\* the remote effect of PATCH /case/<id> with updateTestCase's payload
patchCase(cases, id, tc, suite) ==
  [i \in DOMAIN cases |->
     IF cases[i].id = id
     THEN RemoteCase(id, tc.title, tc.id, suite) ELSE cases[i]]

\* updateTestCase's request: PATCH /case/<existing.id> for test number k
updateTestCase(k, existing, suite, ok) ==
  [qaseApiRequest("PATCH", "case", ok) EXCEPT
     !.id = existing.id, !.suite_id = suite, !.tests = <<k>>]

\* one iteration of the inner update loop: updateTestCase and its bookkeeping
updateItem ==
  /\ pc = "items"
  /\ LET g == Groups[gi]
         item == g.items[ii]
         k == item.testCase
         tc == testCases[k]
     IN /\ \/ /\ remoteCases' = patchCase(remoteCases, item.existing.id, tc, suiteId)
              /\ totalUpdated' = totalUpdated + 1
              /\ allIdMappings' =
                   (tc.id :> idMappingEntry(item.existing, tc)) @@ allIdMappings
              /\ bound' = [bound EXCEPT ![k] = item.existing.id]
              /\ log' = log \o <<updateTestCase(k, item.existing, suiteId, TRUE),
                                  Delay(300)>>
              /\ UNCHANGED <<totalFailed, failures>>
           \/ /\ failures < MaxFailures
              /\ failures' = failures + 1
              /\ totalFailed' = totalFailed + 1
              /\ log' = log \o <<updateTestCase(k, item.existing, suiteId, FALSE),
                                  Delay(300)>>
              /\ UNCHANGED <<remoteCases, totalUpdated, allIdMappings, bound>>
        /\ IF ii < Len(g.items)
           THEN ii' = ii + 1 /\ UNCHANGED <<gi, pc>>
           ELSE gi' = gi + 1 /\ pc' = "group" /\ UNCHANGED ii
  /\ UNCHANGED <<parser, fixed, exitCode, single, remoteSuites, suiteSeq, caseSeq, run, existingSuites,
                 titleMap, qaseIdMap, toUpdate, toCreate, phase, ens, suiteId,
                 totalCreated, resolved, prev>>

RECURSIVE createdCases(_, _, _, _)
\* the records the remote service adds for a bulk request, ids in request order
createdCases(items, tcs, lastId, suite) ==
  IF items = <<>> THEN <<>>
  ELSE LET tc == tcs[Head(items).testCase]
       IN <<RemoteCase(lastId + 1, tc.title, tc.id, suite)>>
          \o createdCases(Tail(items), tcs, lastId + 1, suite)

RECURSIVE bulkIdMapping(_, _, _, _)
\* Object.assign(allIdMappings, result.idMapping): the ids of the response,
\* keyed by identifier, in request order
bulkIdMapping(all, items, tcs, lastId) ==
  IF items = <<>> THEN all
  ELSE LET tc == tcs[Head(items).testCase]
       IN bulkIdMapping(
            (tc.id :> [qase_id |-> lastId + 1, suite_path |-> tc.suite]) @@ all,
            Tail(items), tcs, lastId + 1)

\* bulkCreateTestCases' request: POST /case/bulk with the tests of one group
bulkCreateTestCases(items, suite, ok) ==
  [qaseApiRequest("POST", "case/bulk", ok) EXCEPT
     !.suite_id = suite, !.tests = testsOf(items)]

\* a create loop that gives up at the first bulk request
bulkCreateAborts ==
  /\ pc = "bulk"
  /\ log' = Append(log, bulkCreateTestCases(Groups[gi].items, suiteId, FALSE))
  /\ pc' = "done" /\ exitCode' = "1"
  /\ UNCHANGED <<parser, fixed, single, remote, run, existingSuites, titleMap,
                 qaseIdMap, toUpdate, toCreate, phase, gi, ii, ens, suiteId,
                 totalUpdated, totalCreated, totalFailed, allIdMappings,
                 failures, bound, resolved, prev>>

\* one iteration of the create loop after the suite is resolved
bulkCreate ==
  /\ pc = "bulk"
  /\ LET g == Groups[gi]
         n == Len(g.items)
     IN \/ /\ remoteCases' =
                remoteCases \o createdCases(g.items, testCases, caseSeq, suiteId)
           /\ caseSeq' = caseSeq + n
           /\ totalCreated' = totalCreated + n
           /\ allIdMappings' = bulkIdMapping(allIdMappings, g.items, testCases, caseSeq)
           /\ bound' = [k \in DOMAIN bound |->
                          IF \E j \in 1..n : g.items[j].testCase = k
                          THEN caseSeq + (CHOOSE j \in 1..n : g.items[j].testCase = k)
                          ELSE bound[k]]
           /\ log' = log \o <<bulkCreateTestCases(g.items, suiteId, TRUE), Delay(1000)>>
           /\ UNCHANGED <<totalFailed, failures>>
        \/ /\ failures < MaxFailures
           /\ failures' = failures + 1
           /\ totalFailed' = totalFailed + n
           /\ log' = log \o <<bulkCreateTestCases(g.items, suiteId, FALSE), Delay(1000)>>
           /\ UNCHANGED <<remoteCases, caseSeq, totalCreated, allIdMappings, bound>>
  /\ gi' = gi + 1
  /\ pc' = "group"
  /\ UNCHANGED <<parser, fixed, exitCode, single, remoteSuites, suiteSeq, run, existingSuites, titleMap,
                 qaseIdMap, toUpdate, toCreate, phase, ii, ens, suiteId,
                 totalUpdated, resolved, prev>>

\* the end of the update loop (the create loop follows) and of the create loop
endLoop ==
  /\ pc = "group"
  /\ gi > Len(Groups)
  /\ \/ /\ phase = "update"
        /\ phase' = "create"
        /\ gi' = 1
        /\ UNCHANGED <<pc, exitCode>>
     \/ /\ phase = "create"
        /\ pc' = "done" /\ exitCode' = "0"
        /\ UNCHANGED <<phase, gi>>
  /\ UNCHANGED <<parser, fixed, single, remote, run, existingSuites, titleMap, qaseIdMap,
                 toUpdate, toCreate, ii, ens, suiteId, totalUpdated, totalCreated,
                 totalFailed, allIdMappings, log, failures, bound, resolved, prev>>

\* the command is invoked again on the same source text: a fresh process
reinvoke ==
  /\ pc = "done"
  /\ run < MaxRuns
  /\ run' = run + 1
  /\ pc' = "main" /\ exitCode' = ""
  /\ suiteMap' = EmptyMap /\ existingCase' = NoCase
  /\ prev' = [completed |-> TRUE, allOk |-> AllOk(log), bound |-> bound]
  /\ existingSuites' = <<>> /\ titleMap' = EmptyMap /\ qaseIdMap' = EmptyMap
  /\ toUpdate' = <<>> /\ toCreate' = <<>> /\ phase' = "update" /\ gi' = 0 /\ ii' = 0
  /\ ens' = NoEns /\ suiteId' = Null
  /\ totalUpdated' = 0 /\ totalCreated' = 0 /\ totalFailed' = 0
  /\ allIdMappings' = EmptyMap /\ log' = <<>> /\ bound' = <<>>
  /\ UNCHANGED <<parser, fixed, remote, failures, resolved>>

\* ------------------------------------------------- sync-single-case.js
Min(S) == CHOOSE m \in S : \A x \in S : m <= x

\* resolveTestId: the identifier the argument stands for; "" is process.exit(1)
resolveTestId(input, tcs) ==
  IF input.qaseForm
  THEN LET hits == {k \in DOMAIN tcs :
                      tcs[k].qase_id # Null /\ tcs[k].qase_id = input.n}
       IN IF hits = {} THEN "" ELSE tcs[Min(hits)].id
  ELSE input.text

\* testCases.find(tc => tc.id === targetTestId): its index, 0 if none
targetCase(tcs, targetTestId) ==
  LET hits == {k \in DOMAIN tcs : tcs[k].id = targetTestId}
  IN IF hits = {} THEN 0 ELSE Min(hits)

\* a lookup that takes the first remote record, whatever its identifier
firstRecord(cases, customId) == IF cases = <<>> THEN NoCase ELSE cases[1]

\* the loop of getExistingCase: the first remote record whose custom-identifier
\* field is the identifier or whose title starts with it
findExistingCase(cases, customId) ==
  LET hits == {i \in DOMAIN cases :
                 \/ cases[i].custom_id = customId
                 \/ (cases[i].title # <<>> /\ cases[i].title[1] = customId)}
  IN IF hits = {} THEN NoCase ELSE cases[Min(hits)]

\* parseSuitePath of sync-single-case.js: tab wins, otherwise '>' (every '>' of
\* the modelled texts is the one of a " > " atom)
single_parseSuitePath(suiteName) ==
  IF Includes(suiteName, TAB)
  THEN SelectSeq(MapTrim(Split(suiteName, TAB)), NonEmpty)
  ELSE SelectSeq(MapTrim(Split(suiteName, GT)), NonEmpty)

\* process.exit(code)
Exit(code) == pc' = "done" /\ exitCode' = code

\* main of sync-single-case.js up to the first remote request
single_main ==
  /\ script = "sync-single-case" /\ pc = "main"
  /\ LET targetTestId == resolveTestId(target, testCases)
     IN IF \/ targetTestId = ""
           \/ testCases = <<>>
           \/ targetCase(testCases, targetTestId) = 0
        THEN Exit("1")
        ELSE pc' = "getExistingCase" /\ UNCHANGED exitCode
  /\ UNCHANGED <<parser, fixed, single, remote, run, existingSuites, titleMap, qaseIdMap,
                 toUpdate, toCreate, phase, gi, ii, ens, suiteId, totalUpdated,
                 totalCreated, totalFailed, allIdMappings, log, failures, bound,
                 resolved, prev>>

\* getExistingCase: the pages of GET /case; an error is caught and null returned;
\* main exits when nothing was found
getExistingCase ==
  /\ script = "sync-single-case" /\ pc = "getExistingCase"
  /\ LET targetTestId == resolveTestId(target, testCases)
     IN \/ /\ existingCase' = findExistingCase(remoteCases, targetTestId)
           /\ log' = Append(log, qaseApiRequest("GET", "case", TRUE))
           /\ IF existingCase' = NoCase
              THEN Exit("1")
              ELSE pc' = "single_getSuites" /\ UNCHANGED exitCode
           /\ UNCHANGED failures
        \/ /\ failures < MaxFailures
           /\ failures' = failures + 1
           /\ existingCase' = NoCase
           /\ log' = Append(log, qaseApiRequest("GET", "case", FALSE))
           /\ Exit("1")
  /\ UNCHANGED <<parser, fixed, suiteMap, remote, run, existingSuites, titleMap, qaseIdMap,
                 toUpdate, toCreate, phase, gi, ii, ens, suiteId, totalUpdated,
                 totalCreated, totalFailed, allIdMappings, bound, resolved, prev>>

\* main: GET /suite (one request, outside any try), then the head of
\* ensureSuiteHierarchy: parseSuitePath, and no part means no suite id
single_getSuites ==
  /\ script = "sync-single-case" /\ pc = "single_getSuites"
  /\ LET tc == testCases[targetCase(testCases, resolveTestId(target, testCases))]
         parts == single_parseSuitePath(tc.suite)
     IN \/ /\ existingSuites' = remoteSuites
           /\ log' = Append(log, qaseApiRequest("GET", "suite", TRUE))
           /\ IF parts = <<>>
              THEN Exit("1") /\ UNCHANGED ens
              ELSE /\ ens' = [suiteNames |-> parts, i |-> 1, parentId |-> Null,
                              posts |-> 0]
                   /\ pc' = "single_ensure"
                   /\ UNCHANGED exitCode
           /\ UNCHANGED failures
        \/ /\ failures < MaxFailures
           /\ failures' = failures + 1
           /\ log' = Append(log, qaseApiRequest("GET", "suite", FALSE))
           /\ Exit("1")
           /\ UNCHANGED <<existingSuites, ens>>
  /\ UNCHANGED <<parser, fixed, single, remote, run, titleMap, qaseIdMap, toUpdate,
                 toCreate, phase, gi, ii, suiteId, totalUpdated, totalCreated,
                 totalFailed, allIdMappings, bound, resolved, prev>>

\* the end of one iteration of the loop of sync-single-case's
\* ensureSuiteHierarchy: suiteMap[currentPath] = id, and after the last part the
\* return of suiteMap[fullSuitePath]
single_Descend(currentPath, id, fullSuitePath) ==
  /\ suiteMap' = (currentPath :> id) @@ suiteMap
  /\ IF ens.i < Len(ens.suiteNames)
     THEN /\ ens' = [ens EXCEPT !.i = @ + 1]
          /\ UNCHANGED <<suiteId, pc, exitCode>>
     ELSE /\ ens' = NoEns
          /\ IF fullSuitePath \in DOMAIN suiteMap'
             THEN /\ suiteId' = suiteMap'[fullSuitePath]
                  /\ pc' = "single_update"
                  /\ UNCHANGED exitCode
             ELSE /\ suiteId' = Null
                  /\ Exit("1")

\* one level of ensureSuiteHierarchy and createSuite of sync-single-case.js
single_ensureSuiteHierarchy ==
  /\ script = "sync-single-case" /\ pc = "single_ensure"
  /\ LET tc == testCases[targetCase(testCases, resolveTestId(target, testCases))]
         fullSuitePath == tc.suite
         parts == ens.suiteNames
         separator == IF Includes(fullSuitePath, TAB) THEN TAB ELSE GT
         currentPath == Join(SubSeq(parts, 1, ens.i), separator)
         currentName == parts[ens.i]
         parentPath == Join(SubSeq(parts, 1, ens.i - 1), separator)
         parentId == IF ens.i > 1 /\ parentPath \in DOMAIN suiteMap
                     THEN suiteMap[parentPath] ELSE Null
         f == findSuite(existingSuites, currentName, parentId)
         newId == suiteSeq + 1
         suite == Suite(newId, currentName, parentId)
     IN \/ /\ f # 0
           /\ single_Descend(currentPath, existingSuites[f].id, fullSuitePath)
           /\ UNCHANGED <<remoteSuites, suiteSeq, existingSuites, failures, log>>
        \/ /\ f = 0
           /\ remoteSuites' = Append(remoteSuites, suite)
           /\ suiteSeq' = newId
           /\ existingSuites' = pushSuite(existingSuites, suite)
           /\ log' = Append(log, createSuite(currentName, parentId, newId, TRUE))
           /\ single_Descend(currentPath, newId, fullSuitePath)
           /\ UNCHANGED failures
        \/ /\ f = 0
           /\ failures < MaxFailures
           /\ failures' = failures + 1
           /\ log' = Append(log, createSuite(currentName, parentId, Null, FALSE))
           /\ ens' = NoEns
           /\ Exit("1")
           /\ UNCHANGED <<remoteSuites, suiteSeq, existingSuites, suiteMap, suiteId>>
  /\ UNCHANGED <<parser, fixed, existingCase, remoteCases, caseSeq, run, titleMap,
                 qaseIdMap, toUpdate, toCreate, phase, gi, ii, totalUpdated,
                 totalCreated, totalFailed, allIdMappings, bound, resolved, prev>>

\* updateTestCase of sync-single-case.js and the end of main
single_updateTestCase ==
  /\ script = "sync-single-case" /\ pc = "single_update"
  /\ LET k == targetCase(testCases, resolveTestId(target, testCases))
     IN \/ /\ remoteCases' = patchCase(remoteCases, existingCase.id, testCases[k],
                                        suiteId)
           /\ log' = Append(log, updateTestCase(k, existingCase, suiteId, TRUE))
           /\ Exit("0")
           /\ UNCHANGED failures
        \/ /\ failures < MaxFailures
           /\ failures' = failures + 1
           /\ log' = Append(log, updateTestCase(k, existingCase, suiteId, FALSE))
           /\ Exit("1")
           /\ UNCHANGED remoteCases
  /\ UNCHANGED <<parser, fixed, single, remoteSuites, suiteSeq, caseSeq, run,
                 existingSuites, titleMap, qaseIdMap, toUpdate, toCreate, phase,
                 gi, ii, ens, suiteId, totalUpdated, totalCreated, totalFailed,
                 allIdMappings, bound, resolved, prev>>

\* --------------------------------------------------- sync-from-qase.js
BSL == "\\"

RECURSIVE buildSuitePath(_, _)
\* buildSuitePath of getAllSuites: the titles from the root to the suite,
\* joined with a backslash; the walk stops at an id that is not in the list
buildSuitePath(suites, currentId) ==
  LET hits == {i \in DOMAIN suites : suites[i].id = currentId}
  IN IF currentId = Null \/ hits = {} THEN <<>>
     ELSE LET suite == suites[Max(hits)]
              above == buildSuitePath(suites, suite.parent_id)
          IN IF above = <<>> THEN suite.title
             ELSE above \o <<BSL>> \o suite.title

\* the idMapping getAllTestCases builds: custom id -> {qase_id, suite_path}; a
\* later record with the same custom id replaces an earlier one
idMappingOf(allCases, allSuites) ==
  [c \in {allCases[i].custom_id : i \in DOMAIN allCases} \ {""} |->
     LET testCase == allCases[Max({i \in DOMAIN allCases : allCases[i].custom_id = c})]
     IN [qase_id |-> testCase.id,
         suite_path |-> buildSuitePath(allSuites, testCase.suite_id)]]

\* getAllSuites: every page of GET /suite; an error is caught and an empty
\* path map returned
getAllSuites ==
  /\ script = "sync-from-qase" /\ pc = "main"
  /\ \/ /\ existingSuites' = remoteSuites
        /\ log' = Append(log, qaseApiRequest("GET", "suite", TRUE))
        /\ UNCHANGED failures
     \/ /\ failures < MaxFailures
        /\ failures' = failures + 1
        /\ existingSuites' = <<>>
        /\ log' = Append(log, qaseApiRequest("GET", "suite", FALSE))
  /\ pc' = "getAllTestCases"
  /\ UNCHANGED <<parser, fixed, exitCode, single, remote, run, titleMap, qaseIdMap,
                 toUpdate, toCreate, phase, gi, ii, ens, suiteId, totalUpdated,
                 totalCreated, totalFailed, allIdMappings, bound, resolved, prev>>

\* getAllTestCases: every page of GET /case and the id mapping; an error ends
\* the process, and so does an empty mapping in main
getAllTestCases ==
  /\ script = "sync-from-qase" /\ pc = "getAllTestCases"
  /\ \/ /\ allIdMappings' = idMappingOf(remoteCases, existingSuites)
        /\ log' = Append(log, qaseApiRequest("GET", "case", TRUE))
        /\ IF DOMAIN allIdMappings' = {}
           THEN Exit("1")
           ELSE pc' = "writeBack" /\ UNCHANGED exitCode
        /\ UNCHANGED failures
     \/ /\ failures < MaxFailures
        /\ failures' = failures + 1
        /\ log' = Append(log, qaseApiRequest("GET", "case", FALSE))
        /\ Exit("1")
        /\ UNCHANGED allIdMappings
  /\ UNCHANGED <<parser, fixed, single, remote, run, existingSuites, titleMap, qaseIdMap,
                 toUpdate, toCreate, phase, gi, ii, ens, suiteId, totalUpdated,
                 totalCreated, totalFailed, bound, resolved, prev>>

\* the rest of main: the CSV update and the two child processes; they work on
\* local files only, and the failure of any of them ends the process with 1
writeBack ==
  /\ script = "sync-from-qase" /\ pc = "writeBack"
  /\ \/ Exit("0")
     \/ Exit("1")
  /\ UNCHANGED <<parser, fixed, single, remote, run, existingSuites, titleMap, qaseIdMap,
                 toUpdate, toCreate, phase, gi, ii, ens, suiteId, totalUpdated,
                 totalCreated, totalFailed, allIdMappings, log, failures, bound,
                 resolved, prev>>

\* ===================================================== extract-tests.js
\* Source text is a sequence of atoms.  Every character the parser looks at
\* is an atom of its own: the brackets, the three quotes, ':' ',' ';' '/' '*'
\* '|' the backslash, the blank and the line break.  A word the parser only
\* compares as a whole ("test", "test.describe", "=>", a name) is one atom.
\* Identifiers are spelled out, one atom per character.
\* the back quote cannot be written in a string of this language
BACKTICK == "back quote"
QUOTES == {"'", "\"", BACKTICK}
WS == {" ", "\n", TAB}
BRACKETS == {"(", ")", "{", "}"}
UPPER == {"A", "B", "C", "D", "E", "F", "G", "H", "I", "J", "K", "L", "M", "N",
          "O", "P", "Q", "R", "S", "T", "U", "V", "W", "X", "Y", "Z"}
DIGITS == {"0", "1", "2", "3", "4", "5", "6", "7", "8", "9"}

At(s, i) == IF i \in 1..Len(s) THEN s[i] ELSE ""

\* the first position at or after i whose atom is in stop; Len(s) + 1 if none:
\* where a greedy run [^stop]+ that starts at i ends
RunEnd(s, i, stop) ==
  Min({j \in i..Len(s) : s[j] \in stop} \cup {Len(s) + 1})

\* a pattern that asks for digits after the module, however many
AnyNumberPattern(id) ==
  LET segs == Split(id, "-")
  IN /\ Len(segs) = 4
     /\ segs[1] = <<"T", "C">>
     /\ Len(segs[2]) \in 2..8
     /\ \A i \in 1..Len(segs[2]) : segs[2][i] \in UPPER \cup DIGITS
     /\ Len(segs[3]) \in 2..12
     /\ \A i \in 1..Len(segs[3]) : segs[3][i] \in UPPER
     /\ Len(segs[4]) >= 1
     /\ \A i \in 1..Len(segs[4]) : segs[4][i] \in DIGITS

\* STANDARD_ID_PATTERN = /^TC-[A-Z0-9]{2,8}-[A-Z]{2,12}-\d{3}$/ on a list of
\* characters
STANDARD_ID_PATTERN(id) ==
  LET segs == Split(id, "-")
  IN /\ Len(segs) = 4
     /\ segs[1] = <<"T", "C">>
     /\ Len(segs[2]) \in 2..8
     /\ \A i \in 1..Len(segs[2]) : segs[2][i] \in UPPER \cup DIGITS
     /\ Len(segs[3]) \in 2..12
     /\ \A i \in 1..Len(segs[3]) : segs[3][i] \in UPPER
     /\ Len(segs[4]) = 3
     /\ \A i \in 1..3 : segs[4][i] \in DIGITS

\* validateCustomId(customId).valid
validateCustomId(customId) ==
  IF customId = <<>> \/ Trim(customId) = <<>> THEN FALSE
  ELSE STANDARD_ID_PATTERN(Trim(customId))

\* TEST_ID_PATTERN matched at p: "test(", one of the three quotes, the id run
\* (no ':', no single or double quote), ':', blanks, the title run (none of
\* the three quotes), a single or a double quote.
\* The id run is greedy and ends at the first ':' or quote, which must be
\* ':'; the title run ends at the first quote, which must be ' or "; the
\* \s* gives blanks back when the title would be empty otherwise.
idEnd(s, p) == RunEnd(s, p + 3, {":", "'", "\""})
titleEnd(s, p) == RunEnd(s, idEnd(s, p) + 1, QUOTES)
TEST_ID_PATTERN(s, p) ==
  /\ At(s, p) = "test" /\ At(s, p + 1) = "(" /\ At(s, p + 2) \in QUOTES
  /\ idEnd(s, p) > p + 3
  /\ At(s, idEnd(s, p)) = ":"
  /\ titleEnd(s, p) > idEnd(s, p) + 1
  /\ At(s, titleEnd(s, p)) \in {"'", "\""}

\* idPattern.exec(fileContent): the first match at or after from, 0 for null
idPattern_exec(s, from) ==
  IF \E p \in from..Len(s) : TEST_ID_PATTERN(s, p)
  THEN Min({p \in from..Len(s) : TEST_ID_PATTERN(s, p)}) ELSE 0

\* match[1].trim() and match[2].trim()
matchId(s, p) == Trim(SubSeq(s, p + 3, idEnd(s, p) - 1))
matchTitle(s, p) == Trim(SubSeq(s, idEnd(s, p) + 1, titleEnd(s, p) - 1))

\* testPattern of extractNestedDescribePath ("test(", a quote, the id, ':'),
\* first match
\* (0 for null)
atTest(s, p, testId) ==
  /\ At(s, p) = "test" /\ At(s, p + 1) = "(" /\ At(s, p + 2) \in QUOTES
  /\ p + 2 + Len(testId) <= Len(s)
  /\ SubSeq(s, p + 3, p + 2 + Len(testId)) = testId
  /\ At(s, p + 3 + Len(testId)) = ":"
testPattern_exec(s, testId) ==
  IF \E p \in 1..Len(s) : atTest(s, p, testId)
  THEN Min({p \in 1..Len(s) : atTest(s, p, testId)}) ELSE 0

\* describePattern matched at d ("test.describe(", a quote or a blank, the
\* name run without quotes, a quote or a blank):
\* the name run ends at the first quote; with no quote left the run is cut
\* at its last blank
nameEnd(s, d) ==
  LET q == RunEnd(s, d + 3, QUOTES)
      blanks == {j \in (d + 4)..Len(s) : s[j] = " "}
  IN IF q <= Len(s) THEN q ELSE IF blanks # {} THEN Max(blanks) ELSE 0
describePattern(s, d) ==
  /\ At(s, d) = "test.describe" /\ At(s, d + 1) = "("
  /\ At(s, d + 2) \in QUOTES \cup {" "}
  /\ nameEnd(s, d) > d + 3

RECURSIVE allDescribes(_, _)
\* the loop over describePattern.exec(beforeTest): name, startPos, endPos
allDescribes(s, from) ==
  IF ~\E d \in from..Len(s) : describePattern(s, d) THEN <<>>
  ELSE LET d == Min({p \in from..Len(s) : describePattern(s, p)})
       IN <<[name |-> Trim(SubSeq(s, d + 3, nameEnd(s, d) - 1)),
             startPos |-> d, endPos |-> nameEnd(s, d)]>>
          \o allDescribes(s, nameEnd(s, d) + 1)

\* the variables of the walk of lines 569-620 before the first character of
\* a segment; skip is the i++ of line 595
Walk0 ==
  [balance |-> 0, inString |-> FALSE, stringChar |-> "",
   inSingleComment |-> FALSE, inMultiComment |-> FALSE, skip |-> FALSE]

\* one turn of the loop of lines 575-620, at character i
walkStep(segment, i, w) ==
  LET char == segment[i]
      prevChar == At(segment, i - 1)
      nextChar == At(segment, i + 1)
      inComment == w.inSingleComment \/ w.inMultiComment
      quote == ~inComment /\ char \in QUOTES /\ prevChar # "\\"
      opens == quote /\ ~w.inString
      closes == quote /\ w.inString /\ char = w.stringChar
      inString == IF opens THEN TRUE ELSE IF closes THEN FALSE ELSE w.inString
      counted == ~inString /\ ~inComment
  IN IF w.skip THEN [w EXCEPT !.skip = FALSE]
     ELSE IF ~w.inString /\ char = "/" /\ nextChar = "/"
     THEN [w EXCEPT !.inSingleComment = TRUE]
     ELSE IF w.inSingleComment /\ char = "\n"
     THEN [w EXCEPT !.inSingleComment = FALSE]
     ELSE IF ~w.inString /\ char = "/" /\ nextChar = "*"
     THEN [w EXCEPT !.inMultiComment = TRUE]
     ELSE IF w.inMultiComment /\ char = "*" /\ nextChar = "/"
     THEN [w EXCEPT !.inMultiComment = FALSE, !.skip = TRUE]
     ELSE [w EXCEPT
             !.inString = inString,
             !.stringChar = IF opens THEN char ELSE IF closes THEN ""
                            ELSE w.stringChar,
             !.balance = IF counted /\ char \in {"(", "{"} THEN @ + 1
                         ELSE IF counted /\ char \in {")", "}"} THEN @ - 1
                         ELSE @]

RECURSIVE walk(_, _, _, _)
\* the loop over the characters lo..hi of the segment: the first half, then
\* the second half from where the first half ended
walk(segment, lo, hi, w) ==
  IF lo > hi THEN w
  ELSE IF lo = hi THEN walkStep(segment, lo, w)
  ELSE CHOOSE end \in {walk(segment, (lo + hi) \div 2 + 1, hi, half) :
                         half \in {walk(segment, lo, (lo + hi) \div 2, w)}} : TRUE

balanceOf(segment) == walk(segment, 1, Len(segment), Walk0).balance

\* parentDescribes: the describes whose balance up to the test is positive
isParent(s, describe, testStartPos) ==
  balanceOf(SubSeq(s, describe.endPos + 1, testStartPos - 1)) > 0

RECURSIVE namesOf(_)
namesOf(ds) == IF ds = <<>> THEN <<>> ELSE <<Head(ds).name>> \o namesOf(Tail(ds))

\* extractNestedDescribePath as the list of names it joins with ' / ';
\* <<>> stands for null
parentDescribes(s, testId) ==
  LET testStartPos == testPattern_exec(s, testId)
      all == allDescribes(SubSeq(s, 1, testStartPos - 1), 1)
      IsParent(d) == isParent(s, d, testStartPos)
  IN IF testStartPos = 0 THEN <<>> ELSE namesOf(SelectSeq(all, IsParent))

extractNestedDescribePath(s, testId) == JoinPath(parentDescribes(s, testId))

\* extractSuite throws when extractNestedDescribePath returns null (or '')
extractSuite_throws(s, customId) ==
  customId = <<>> \/ extractNestedDescribePath(s, customId) = <<>>

\* extractTestContent's pattern ("test(", a quote, the id, ':', a run
\* without quotes, a quote, then lazily anything up to "=>", blanks, '{'; flag
\* s): the position of the '{' it ends with, 0 when it does not match.  The
\* lazy .*? runs to the first "=>" that blanks and a '{' follow.
arrowBrace(s, a) == Min({j \in (a + 1)..Len(s) : s[j] \notin WS} \cup {Len(s) + 1})
isArrow(s, a) == At(s, a) = "=>" /\ At(s, arrowBrace(s, a)) = "{"
startIndex(s, testId) ==
  LET ps == {p \in 1..Len(s) :
               /\ atTest(s, p, testId)
               /\ RunEnd(s, p + 4 + Len(testId), QUOTES) <= Len(s)
               /\ \E a \in 1..Len(s) :
                    a > RunEnd(s, p + 4 + Len(testId), QUOTES) /\ isArrow(s, a)}
  IN IF ps = {} THEN 0
     ELSE LET p == Min(ps)
              q == RunEnd(s, p + 4 + Len(testId), QUOTES)
          IN arrowBrace(s, Min({a \in (q + 1)..Len(s) : isArrow(s, a)}))

\* the variables of the walk of lines 724-763 at the body's opening brace;
\* endIndex is 0 as long as braceCount is positive
Brace0 ==
  [braceCount |-> 1, inString |-> FALSE, stringChar |-> "", inComment |-> FALSE,
   endIndex |-> 0]

\* one turn of the loop of lines 730-763, at character i
braceStep(s, i, w) ==
  LET char == s[i]
      prevChar == At(s, i - 1)
      quote == ~w.inComment /\ char \in QUOTES /\ prevChar # "\\"
      opens == quote /\ ~w.inString
      closes == quote /\ w.inString /\ char = w.stringChar
      inString == IF opens THEN TRUE ELSE IF closes THEN FALSE ELSE w.inString
      inComment == IF ~inString /\ char = "/" /\ At(s, i + 1) = "/" THEN TRUE
                   ELSE IF w.inComment /\ char = "\n" THEN FALSE
                   ELSE w.inComment
      counted == ~inString /\ ~inComment
      braceCount == IF counted /\ char = "{" THEN w.braceCount + 1
                    ELSE IF counted /\ char = "}" THEN w.braceCount - 1
                    ELSE w.braceCount
  IN IF w.braceCount = 0 THEN w
     ELSE [braceCount |-> braceCount, inString |-> inString,
           stringChar |-> IF opens THEN char ELSE IF closes THEN ""
                          ELSE w.stringChar,
           inComment |-> inComment,
           endIndex |-> IF braceCount = 0 THEN i + 1 ELSE 0]

RECURSIVE braceWalk(_, _, _, _)
braceWalk(s, lo, hi, w) ==
  IF lo > hi THEN w
  ELSE IF lo = hi THEN braceStep(s, lo, w)
  ELSE CHOOSE end \in {braceWalk(s, (lo + hi) \div 2 + 1, hi, half) :
                         half \in {braceWalk(s, lo, (lo + hi) \div 2, w)}} : TRUE

\* extractTestContent; <<>> stands for null
extractTestContent(s, testId) ==
  LET start == startIndex(s, testId)
      end == braceWalk(s, start + 1, Len(s), Brace0).endIndex
  IN IF start = 0 \/ end = 0 THEN <<>> ELSE SubSeq(s, start, end - 1)

\* the end of the greedy run \d+ that starts at i (i itself when there is no
\* digit)
digitsEnd(s, i) == Min({j \in i..Len(s) : s[j] \notin DIGITS} \cup {Len(s) + 1})

DigitVal ==
  [d \in DIGITS |->
     CASE d = "0" -> 0 [] d = "1" -> 1 [] d = "2" -> 2 [] d = "3" -> 3
       [] d = "4" -> 4 [] d = "5" -> 5 [] d = "6" -> 6 [] d = "7" -> 7
       [] d = "8" -> 8 [] d = "9" -> 9]

RECURSIVE parseInt(_)
\* parseInt(digits, 10)
parseInt(ds) ==
  IF ds = <<>> THEN 0
  ELSE 10 * parseInt(SubSeq(ds, 1, Len(ds) - 1)) + DigitVal[ds[Len(ds)]]

\* /qase\.id\((\d+)\)/ matched at i
qaseIdAt(s, i) ==
  /\ At(s, i) = "qase.id" /\ At(s, i + 1) = "("
  /\ digitsEnd(s, i + 2) > i + 2
  /\ At(s, digitsEnd(s, i + 2)) = ")"

\* extractQaseId: the number in the first qase.id(<digits>) of the test's
\* content, Null when there is none
extractQaseId(testContent) ==
  IF \E i \in 1..Len(testContent) : qaseIdAt(testContent, i)
  THEN LET i == Min({j \in 1..Len(testContent) : qaseIdAt(testContent, j)})
       IN parseInt(SubSeq(testContent, i + 2, digitsEnd(testContent, i + 2) - 1))
  ELSE Null

\* ------------------------------------------------ the test file as written
\* A file is a list of declarations: a group opening, a group closing, a test
\* and a statement that is only a string literal or a comment (a filler).
Decl ==
  [kind |-> "", name |-> <<>>, id |-> <<>>, quote |-> "'", fn |-> "arrow",
   qaseId |-> <<>>, text |-> <<>>]
Open(name) == [Decl EXCEPT !.kind = "open", !.name = name]
Close == [Decl EXCEPT !.kind = "close"]
Test(id, quote, fn, qaseId) ==
  [Decl EXCEPT !.kind = "test", !.id = id, !.quote = quote, !.fn = fn,
               !.qaseId = qaseId]
Filler(text) == [Decl EXCEPT !.kind = "filler", !.text = text]

\* the text of one declaration, as in the example of extractSuite's message
RenderDecl(d) ==
  CASE d.kind = "open" ->
         <<"test.describe", "(", "'">> \o d.name
         \o <<"'", ",", " ", "(", ")", " ", "=>", " ", "{", "\n">>
    [] d.kind = "close" -> <<"}", ")", ";", "\n">>
    [] d.kind = "test" ->
         <<"test", "(", d.quote>> \o d.id \o <<":", " ", "t", d.quote, ",", " ">>
         \o (IF d.fn = "function"
             THEN <<"async", " ", "function", " ", "(", ")", " ", "{", "\n">>
             ELSE <<"async", " ", "(", ")", " ", "=>", " ", "{", "\n">>)
         \o (IF d.fn = "unclosed"
             THEN <<" ", "i", "f", " ", "(", "x", ")", " ", "{", "\n">>
             ELSE <<>>)
         \o (IF d.qaseId # <<>>
             THEN <<" ", "qase.id", "(">> \o d.qaseId \o <<")", ";", "\n">>
             ELSE <<>>)
         \o <<" ", "x", "(", ")", ";", "\n", "}", ")", ";", "\n">>
    [] OTHER -> d.text

RECURSIVE Render(_)
Render(ds) == IF ds = <<>> THEN <<>> ELSE RenderDecl(Head(ds)) \o Render(Tail(ds))

RECURSIVE enclosing(_, _, _)
\* the names of the groups that are open in front of declaration k,
\* outermost first
enclosing(ds, k, stack) ==
  IF k = 1 THEN stack
  ELSE LET d == Head(ds)
       IN enclosing(Tail(ds), k - 1,
            IF d.kind = "open" THEN Append(stack, d.name)
            ELSE IF d.kind = "close" /\ stack # <<>>
            THEN SubSeq(stack, 1, Len(stack) - 1)
            ELSE stack)

\* the declarations that are tests
testDecls(ds) == {k \in 1..Len(ds) : ds[k].kind = "test"}
\* the first declaration of a test with this identifier
declOf(ds, id) == Min({k \in testDecls(ds) : ds[k].id = id})

\* a filler without the brackets in it
RECURSIVE stripBrackets(_)
stripBrackets(ds) ==
  LET NoBracket(a) == a \notin BRACKETS
  IN IF ds = <<>> THEN <<>>
     ELSE <<IF Head(ds).kind = "filler"
            THEN Filler(SelectSeq(Head(ds).text, NoBracket)) ELSE Head(ds)>>
          \o stripBrackets(Tail(ds))

\* ------------------------------------------------------- the files scanned
C == <<"C">>
X == <<"X">>
Y == <<"Y">>
IDa == <<"T", "C", "-", "U", "I", "-", "A", "B", "-", "0", "0", "1">>
IDb == <<"T", "C", "-", "U", "I", "-", "A", "B", "-", "0", "0", "2">>
IDc == <<"T", "C", "-", "U", "I", "-", "A", "B", "-", "0", "0", "3">>
EA140 == <<"E", "A", "-", "1", "4", "0">>

\* a test as the examples write it, and the other forms a declaration takes
T(id) == Test(id, "'", "arrow", <<>>)
Tdq(id) == Test(id, "\"", "arrow", <<>>)
Tbq(id) == Test(id, BACKTICK, "arrow", <<>>)
Tfn(id) == Test(id, "'", "function", <<>>)
Tq(id, n) == Test(id, "'", "arrow", n)

\* files without fillers: straight nesting, sibling groups, closed groups,
\* tests outside every group, invalid identifiers, the other declaration forms
Nested ==
  {<<Open(A), T(IDa), Close>>,
   <<Open(A), Open(B), T(IDa), Close, Close>>,
   <<Open(A), Open(B), Open(C), T(IDa), Close, Close, Close>>,
   <<Open(A), T(IDa), Tdq(IDb), T(IDc), Close>>,
   <<Open(A), T(IDa), Open(B), Tdq(IDb), Close, T(IDc), Close>>}
Siblings ==
  {<<Open(A), Open(B), T(IDa), Close, Open(C), T(IDb), Close, Close>>,
   <<Open(X), Close, Open(Y), T(IDa), Close>>,
   <<Open(A), Open(B), Close, T(IDa), Close>>,
   <<Open(A), Open(X), Close, Open(B), Open(C), T(IDa), Close, Close,
     Open(Y), T(IDb), Close, Close>>}
Outside ==
  {<<T(IDa), Open(A), T(IDb), Close>>,
   <<Open(A), T(IDa), Close, T(IDb)>>,
   <<Open(A), T(IDa), Close, T(IDb), Open(B), T(IDc), Close>>,
   <<T(IDa)>>}
Invalid ==
  {<<Open(A), T(EA140), T(IDa), Close>>,
   <<Open(A), T(IDa), Tdq(EA140), T(IDb), Close>>,
   <<Open(A), T(EA140), T(<<"t", "c", "-", "1">>), Close>>,
   <<T(EA140), Open(A), T(IDa), Close>>,
   <<Open(A), T(IDa), Tbq(EA140), T(IDb), Close>>}
Forms ==
  {<<Open(A), T(IDa), Tfn(IDb), Close>>,
   <<Open(A), Tfn(IDa), T(IDb), Close>>,
   <<Open(A), Tbq(IDa), T(IDb), Close>>,
   <<Open(A), Tq(IDa, <<"7">>), T(IDb), Close>>,
   <<Open(A), T(IDa), Tq(IDb, <<"7">>), T(IDc), Close>>,
   <<Open(A), T(IDa), Close, Open(B), Tq(IDb, <<"1", "2">>), Close>>,
   <<Open(A), Tq(IDa, <<"8">>), Close>>}
Plain == Nested \cup Siblings \cup Outside \cup Invalid \cup Forms
\* a file cut short: the body of its last test opens a block, nothing closes
\* the block or the group
Tun(id) == Test(id, "'", "unclosed", <<>>)
Unclosed == {<<Open(A), T(IDa), Tun(IDb)>>}

\* fillers: a string literal of each quote, a line comment, a block comment,
\* with and without brackets in them
Contents == {<<"a">>, <<"{">>, <<"}">>, <<"(", "{">>, <<"}", ")">>}
\* 'C:\\'; '}';  a string that ends in an escaped backslash, then a string
EscapedBackslash ==
  <<"'", "C", ":", "\\", "\\", "'", ";", " ", "'", "}", "'", ";", "\n">>
\* /*/ } */  a block comment whose text begins with a slash
SlashFirst == <<"/", "*", "/", " ", "}", " ", "*", "/", "\n">>
Literals ==
  {<<q>> \o c \o <<q, ";", "\n">> : q \in QUOTES, c \in Contents}
  \cup {<<"'", "i", "t", "\\", "'", "s", "{", "'", ";", "\n">>,
        <<"\"", "i", "t", "'", "s", " ", "}", "\"", ";", "\n">>,
        EscapedBackslash}
Comments ==
  {<<"/", "/">> \o c \o <<"\n">> : c \in Contents}
  \cup {<<"/", "*">> \o c \o <<"*", "/", "\n">> : c \in Contents}
  \cup {<<"/", "/", " ", "i", "t", "'", "s", " ", "{", "\n">>, SlashFirst}
Fillers == {Filler(t) : t \in Literals \cup Comments}

\* a file with one filler between two of its declarations
WithFiller(ds, f, k) == SubSeq(ds, 1, k) \o <<f>> \o SubSeq(ds, k + 1, Len(ds))
Filled ==
  {WithFiller(ds, f, k) :
     ds \in Nested \cup Siblings, f \in Fillers, k \in 1..2}
Files == Plain \cup Filled

hasFiller(ds) == \E k \in 1..Len(ds) : ds[k].kind = "filler"

\* every variable of the sync commands but pc
memory ==
  <<fixed, remote, single, run, exitCode, existingSuites, titleMap, qaseIdMap,
    toUpdate, toCreate, phase, gi, ii, ens, suiteId, totalUpdated,
    totalCreated, totalFailed, allIdMappings, log, failures, bound, resolved,
    prev>>

\* the sync commands at rest
NoSync ==
  /\ target = NoArg /\ testCases = <<>>
  /\ remoteSuites = <<>> /\ remoteCases = <<>> /\ suiteSeq = 0 /\ caseSeq = 0
  /\ run = 1 /\ exitCode = ""
  /\ suiteMap = EmptyMap /\ existingCase = NoCase
  /\ existingSuites = <<>> /\ titleMap = EmptyMap /\ qaseIdMap = EmptyMap
  /\ toUpdate = <<>> /\ toCreate = <<>> /\ phase = "update" /\ gi = 0 /\ ii = 0
  /\ ens = NoEns /\ suiteId = Null
  /\ totalUpdated = 0 /\ totalCreated = 0 /\ totalFailed = 0
  /\ allIdMappings = EmptyMap /\ log = <<>> /\ failures = 0
  /\ bound = <<>> /\ resolved = EmptyMap /\ prev = NoPrev

\* ---------------------------------------------------------- scanTestFiles
\* one record of testCases (the fields the claims read) and one of errors
Extracted(testId, title, suite, qaseId) ==
  [id |-> testId, title |-> fullTitle(testId, title, <<>>), suite |-> suite,
   qase_id |-> qaseId]
ScanError(testId, title) ==
  [testId |-> IF testId = <<>> THEN <<"(missing)">> ELSE testId, title |-> title]

\* the match the loop is at (0: idPattern.exec returned null)
theMatch == idPattern_exec(fileContent, lastIndex)
Scanning == script = "extract-tests" /\ pc = "scan"
Continue(m) ==
  /\ lastIndex' = titleEnd(fileContent, m) + 1
  /\ UNCHANGED <<pc, source, fileContent, written, firstScan, qaseIdMapping, arg, result,
                 memory>>

\* the identifier fails validateCustomId: one entry in errors, continue
rejectId ==
  /\ Scanning /\ theMatch # 0
  /\ \E m \in {theMatch} : \E testId \in {matchId(fileContent, m)} :
       /\ ~validateCustomId(testId)
       /\ errors' = Append(errors, ScanError(testId, matchTitle(fileContent, m)))
       /\ UNCHANGED extracted
       /\ Continue(m)

\* extractSuite throws; scanTestFiles and main have no try block around it
extractSuiteThrows ==
  /\ Scanning /\ theMatch # 0
  /\ \E m \in {theMatch} : \E testId \in {matchId(fileContent, m)} :
       /\ validateCustomId(testId)
       /\ extractSuite_throws(fileContent, testId)
  /\ pc' = "thrown" /\ exitCode' = "1"
  /\ UNCHANGED <<parser, fixed, remote, single, run, existingSuites, titleMap,
                 qaseIdMap, toUpdate, toCreate, phase, gi, ii, ens, suiteId,
                 totalUpdated, totalCreated, totalFailed, allIdMappings, log,
                 failures, bound, resolved, prev>>

\* testCases.push(...)
pushTestCase ==
  /\ Scanning /\ theMatch # 0
  /\ \E m \in {theMatch} : \E testId \in {matchId(fileContent, m)} :
     \E testContent \in {extractTestContent(fileContent, testId)} :
       /\ validateCustomId(testId)
       /\ ~extractSuite_throws(fileContent, testId)
       /\ testContent # <<>>
       /\ extracted' =
            Append(extracted,
                   Extracted(testId, matchTitle(fileContent, m),
                             extractNestedDescribePath(fileContent, testId),
                             extractQaseId(testContent)))
       /\ UNCHANGED errors
       /\ Continue(m)

\* extractTestContent returned null: the declaration is passed over
noTestContent ==
  /\ Scanning /\ theMatch # 0
  /\ \E m \in {theMatch} : \E testId \in {matchId(fileContent, m)} :
       /\ validateCustomId(testId)
       /\ ~extractSuite_throws(fileContent, testId)
       /\ extractTestContent(fileContent, testId) = <<>>
       /\ UNCHANGED <<extracted, errors>>
       /\ Continue(m)

\* return { testCases, errors }
scanReturns ==
  /\ Scanning /\ theMatch = 0
  /\ pc' = "returned"
  /\ result' = <<[testCases |-> extracted, errors |-> errors]>>
  /\ UNCHANGED <<source, fileContent, written, lastIndex, extracted, errors, firstScan,
                 qaseIdMapping, arg, memory>>

\* ============================================ update-qase-annotations.js
\* the number of characters of an atom, and of the atoms in front of atom i
Width(a) ==
  CASE a = "test" -> 4 [] a = "test.describe" -> 13 [] a = "async" -> 5
    [] a = "function" -> 8 [] a = "=>" -> 2 [] a = "qase.id" -> 7
    [] OTHER -> 1
Offset(s, i) ==
  LET Wide(w) == Cardinality({j \in 1..(i - 1) : Width(s[j]) = w})
  IN Cardinality({j \in 1..(i - 1) : Width(s[j]) = 1})
     + 2 * Wide(2) + 4 * Wide(4) + 5 * Wide(5) + 7 * Wide(7) + 8 * Wide(8)
     + 13 * Wide(13)

\* the id of testRegex, [A-Z]+-[A-Z0-9]+-[A-Z]+-\d+
updateIdShape(id) ==
  LET segs == Split(id, "-")
      In(seg, set) == seg # <<>> /\ \A i \in 1..Len(seg) : seg[i] \in set
  IN /\ Len(segs) = 4
     /\ In(segs[1], UPPER) /\ In(segs[2], UPPER \cup DIGITS)
     /\ In(segs[3], UPPER) /\ In(segs[4], DIGITS)

\* testRegex matched at p: "test(", ' or ", the id, ':', lazily anything on
\* the line up to ' or " and ',', blanks, "async", blanks
updateIdEnd(s, p) ==
  Min({j \in (p + 3)..Len(s) : s[j] \notin UPPER \cup DIGITS \cup {"-"}}
      \cup {Len(s) + 1})
SkipWS(s, i) == Min({j \in i..Len(s) : s[j] \notin WS} \cup {Len(s) + 1})
titleCloses(s, p, q) ==
  /\ q > updateIdEnd(s, p)
  /\ \A j \in (updateIdEnd(s, p) + 1)..(q - 1) : s[j] # "\n"
  /\ At(s, q) \in {"'", "\""} /\ At(s, q + 1) = ","
  /\ At(s, SkipWS(s, q + 2)) = "async"
testRegex(s, p) ==
  /\ At(s, p) = "test" /\ At(s, p + 1) = "(" /\ At(s, p + 2) \in {"'", "\""}
  /\ At(s, updateIdEnd(s, p)) = ":"
  /\ updateIdShape(SubSeq(s, p + 3, updateIdEnd(s, p) - 1))
  /\ \E q \in 1..Len(s) : titleCloses(s, p, q)
testRegexEnd(s, p) ==
  SkipWS(s, SkipWS(s, Min({q \in 1..Len(s) : titleCloses(s, p, q)}) + 2) + 1)

\* hasQaseId: one of the ten lines from the line of the test holds "qase.id("
lineOf(s, i) == Cardinality({j \in 1..(i - 1) : s[j] = "\n"})
hasQaseId(s, startIdx) ==
  \E j \in 1..Len(s) :
    /\ s[j] = "qase.id" /\ At(s, j + 1) = "("
    /\ lineOf(s, j) - lineOf(s, startIdx) \in 0..9

RECURSIVE toString(_)
\* the decimal digits of a positive number
toString(n) ==
  LET d == CHOOSE c \in DIGITS : DigitVal[c] = n % 10
  IN IF n < 10 THEN <<d>> ELSE Append(toString(n \div 10), d)

\* generateQaseAnnotations joined on one line
generateQaseAnnotations(qaseId, indent) ==
  indent \o <<"qase.id", "(">> \o toString(qaseId) \o <<")", ";">>

\* /qase\.id\((\d+)\);/ matched at i, inside the 500 characters from testStart
qaseIdStatement(s, i, testStart) ==
  /\ i >= testStart /\ qaseIdAt(s, i) /\ At(s, digitsEnd(s, i + 2) + 1) = ";"
  /\ Offset(s, digitsEnd(s, i + 2) + 2) - Offset(s, testStart) <= 500

\* what one match of testRegex adds to replacements (the empty list when it
\* adds nothing); oldLen is 0 for an insertion
replacementsAt(s, p, mapping) ==
  LET customId == SubSeq(s, p + 3, updateIdEnd(s, p) - 1)
      qaseId == IF customId \in DOMAIN mapping THEN mapping[customId] ELSE Null
      braces == {j \in p..Len(s) : s[j] = "{"}
      funcBodyStart == Min(braces)
      lineStart == Max({j \in 1..(p - 1) : s[j] = "\n"} \cup {0}) + 1
      indent == SubSeq(s, lineStart, SkipWS(SubSeq(s, 1, p - 1), lineStart) - 1)
                \o <<" ", " ">>
      found == {i \in 1..Len(s) : qaseIdStatement(s, i, p)}
      qaseIdPos == Min(found)
      digits == SubSeq(s, qaseIdPos + 2, digitsEnd(s, qaseIdPos + 2) - 1)
      breaks == {j \in funcBodyStart..Len(s) : s[j] = "\n"}
      insertPos == IF breaks = {} THEN 1 ELSE Min(breaks) + 1
  IN IF qaseId = Null \/ braces = {} THEN <<>>
     ELSE IF hasQaseId(s, p)
     THEN IF found # {} /\ parseInt(digits) # qaseId
          THEN <<[position |-> qaseIdPos, oldLen |-> Len(digits) + 4,
                  text |-> generateQaseAnnotations(qaseId, <<>>)]>>
          ELSE <<>>
     ELSE <<[position |-> insertPos, oldLen |-> 0,
             text |-> generateQaseAnnotations(qaseId, indent) \o <<"\n", "\n">>]>>

RECURSIVE replacements(_, _, _)
\* the loop over testRegex.exec(content)
replacements(s, from, mapping) ==
  IF ~\E p \in from..Len(s) : testRegex(s, p) THEN <<>>
  ELSE LET p == Min({j \in from..Len(s) : testRegex(s, j)})
       IN replacementsAt(s, p, mapping)
          \o replacements(s, testRegexEnd(s, p), mapping)

RECURSIVE sortByPosition(_)
\* replacements.sort((a, b) => b.position - a.position): last position
\* first, equal positions in the order they were found
sortByPosition(rs) ==
  IF rs = <<>> THEN <<>>
  ELSE LET top == Max({rs[i].position : i \in 1..Len(rs)})
           IsTop(r) == r.position = top
           Rest(r) == r.position # top
       IN SelectSeq(rs, IsTop) \o sortByPosition(SelectSeq(rs, Rest))

RECURSIVE applyReplacements(_, _)
\* content.substring(0, position) + text + content.substring(position + length)
applyReplacements(content, rs) ==
  IF rs = <<>> THEN content
  ELSE LET r == Head(rs)
       IN applyReplacements(
            SubSeq(content, 1, r.position - 1) \o r.text
            \o SubSeq(content, r.position + r.oldLen, Len(content)),
            Tail(rs))

\* the content updateFile leaves in the file
updateFile_content(content, mapping) ==
  applyReplacements(content, sortByPosition(replacements(content, 1, mapping)))

\* fs.writeFileSync(path, content)
Write(path, content) == [path |-> path, content |-> content]

\* the file written first and its own backup made of what was written
backupAfterwards(content, mapping) ==
  IF replacements(content, 1, mapping) = <<>> THEN <<>>
  ELSE <<Write("file", updateFile_content(content, mapping)),
         Write("file.backup", updateFile_content(content, mapping))>>

\* if (modified): the backup of the file as it is read again, then the file
updateFile_writes(content, mapping) ==
  IF replacements(content, 1, mapping) = <<>> THEN <<>>
  ELSE <<Write("file.backup", content),
         Write("file", updateFile_content(content, mapping))>>

\* the mappings sync-to-qase may have written: no entry, or a remote id
IdValues == {Null, 8, 123}
Mappings ==
  {[id \in {IDa, IDb} |-> v[id]] : v \in [{IDa, IDb} -> IdValues]}

\* update-qase-annotations rewrites the file that was scanned; the next scan
\* starts
updateFile ==
  /\ script = "extract-tests" /\ pc = "returned" /\ firstScan = <<>>
  /\ \E ws \in {updateFile_writes(fileContent, qaseIdMapping)} :
       /\ written' = written \o ws
       /\ fileContent' = IF ws = <<>> THEN fileContent ELSE ws[Len(ws)].content
  /\ firstScan' = result
  /\ pc' = "scan" /\ lastIndex' = 1
  /\ extracted' = <<>> /\ errors' = <<>> /\ result' = <<>>
  /\ UNCHANGED <<source, qaseIdMapping, arg, memory>>

\* update-qase-annotations is run once more, on the file it left, with the
\* same mapping
updateFileAgain ==
  /\ script = "extract-tests" /\ pc = "returned" /\ firstScan # <<>>
  /\ \E ws \in {updateFile_writes(fileContent, qaseIdMapping)} :
       /\ written' = written \o ws
       /\ fileContent' = IF ws = <<>> THEN fileContent ELSE ws[Len(ws)].content
  /\ pc' = "updated"
  /\ UNCHANGED <<source, lastIndex, extracted, errors, firstScan, qaseIdMapping,
                 arg, result, memory>>

\* extract-tests on one file of E2E_DIR
ScanInit ==
  /\ script = "extract-tests"
  /\ NoSync /\ NoPipeline
  /\ \/ source \in Plain \cup Unclosed /\ qaseIdMapping \in Mappings
     \/ source \in Filled /\ qaseIdMapping = EmptyMap
  /\ fileContent = Render(source) /\ written = <<>>
  /\ pc = "scan" /\ lastIndex = 1
  /\ extracted = <<>> /\ errors = <<>> /\ firstScan = <<>>
  /\ arg = <<>> /\ result = <<>>

\* ===================================================== functions applied
\* ------------------------------------------------------------ extractSteps
\* stepPattern matched at p: "await", blanks, "test.step(", a quote, the run
\* without quotes, a quote
stepTextEnd(s, p) == RunEnd(s, SkipWS(s, p + 1) + 3, QUOTES)
stepPattern(s, p) ==
  LET t == SkipWS(s, p + 1)
  IN /\ At(s, p) = "await" /\ t > p + 1
     /\ At(s, t) = "test.step" /\ At(s, t + 1) = "(" /\ At(s, t + 2) \in QUOTES
     /\ stepTextEnd(s, p) > t + 3
     /\ stepTextEnd(s, p) <= Len(s)

\* one step object from match[1]
stepOf(text) ==
  LET stepText == Trim(text)
      parts == MapTrim(Split(stepText, "|"))
  IN [action |-> IF parts[1] # <<>> THEN parts[1] ELSE stepText,
      data |-> IF Len(parts) >= 2 THEN parts[2] ELSE <<>>,
      expected_result |-> IF Len(parts) >= 3 THEN parts[3] ELSE <<>>]

RECURSIVE extractStepsFrom(_, _)
\* the loop over stepPattern.exec(testContent)
extractStepsFrom(s, from) ==
  IF ~\E p \in from..Len(s) : stepPattern(s, p) THEN <<>>
  ELSE LET p == Min({j \in from..Len(s) : stepPattern(s, j)})
       IN <<stepOf(SubSeq(s, SkipWS(s, p + 1) + 3, stepTextEnd(s, p) - 1))>>
          \o extractStepsFrom(s, stepTextEnd(s, p) + 1)
extractSteps(testContent) == extractStepsFrom(testContent, 1)

\* a test body with one test.step call per step text, each text its fields
\* joined with '|'
RECURSIVE RenderSteps(_, _)
RenderSteps(quote, texts) ==
  IF texts = <<>> THEN <<"}">>
  ELSE <<" ", "await", " ", "test.step", "(", quote>> \o Join(Head(texts), "|")
       \o <<quote, ",", " ", "async", " ", "(", ")", " ", "=>", " ", "{", " ",
            "x", "(", ")", ";", " ", "}", ")", ";", "\n">>
       \o RenderSteps(quote, Tail(texts))
StepsBody(a) == <<"{", "\n">> \o RenderSteps(a.quote, a.texts)

\* the fields of a step text: words, with blanks around, empty, with an
\* apostrophe
StepFields ==
  {<<"a">>, <<" ", "b", " ">>, <<>>, <<"c", "l", "i", "c", "k", " ", "'", "S", "'">>}
StepTexts ==
  {t \in UNION {[1..n -> StepFields] : n \in 1..3} : Join(t, "|") # <<>>}
  \cup {<<<<"a">>, <<"b">>, <<"c">>, <<"d">>>>}
StepLists ==
  {<<t>> : t \in StepTexts}
  \cup {<<t, u>> : t \in {<<<<"a">>>>, <<<<"a">>, <<" ", "b", " ">>>>},
                   u \in {<<<<"a">>>>, <<<<" ", "b", " ">>, <<"a">>, <<"a">>>>}}
StepArgs ==
  {a \in [quote : {"'", "\""}, texts : StepLists] :
     \A i \in 1..Len(a.texts) : ~Includes(Join(a.texts[i], "|"), a.quote)}

\* every variable of the scripts but arg, result and pc: nothing else is
\* touched by a function that is applied
NoFile ==
  /\ source = <<>> /\ fileContent = <<>> /\ written = <<>> /\ lastIndex = 0
  /\ extracted = <<>> /\ errors = <<>> /\ firstScan = <<>>
  /\ qaseIdMapping = EmptyMap
idle ==
  <<source, fileContent, written, lastIndex, extracted, errors, firstScan,
    qaseIdMapping, memory>>
Returns(value) ==
  /\ pc = "call"
  /\ result' = <<value>>
  /\ pc' = "returned"
  /\ UNCHANGED <<arg, idle>>

call_extractSteps ==
  /\ script = "extractSteps"
  /\ Returns(extractSteps(StepsBody(arg)))

\* ------------------------------------------------------- validate-test-ids
\* STANDARD_PATTERN = /^TC-[A-Z]{2,8}-[A-Z]{2,12}-\d{3}$/ on a list of
\* characters
STANDARD_PATTERN(id) ==
  LET segs == Split(id, "-")
  IN /\ Len(segs) = 4
     /\ segs[1] = <<"T", "C">>
     /\ Len(segs[2]) \in 2..8
     /\ \A i \in 1..Len(segs[2]) : segs[2][i] \in UPPER
     /\ Len(segs[3]) \in 2..12
     /\ \A i \in 1..Len(segs[3]) : segs[3][i] \in UPPER
     /\ Len(segs[4]) = 3
     /\ \A i \in 1..3 : segs[4][i] \in DIGITS

\* validateTestId(testId).valid
validateTestId(testId) == STANDARD_PATTERN(testId)

\* identifiers, as the segments the hyphens separate: a prefix, a layer, a
\* module and a number, or fewer segments
Prefixes ==
  {<<"T", "C">>,
   <<"t", "c">>,
   <<"E", "A">>}
Layers ==
  {<<"A">>,
   <<"U", "I">>,
   <<"A", "P", "I">>,
   <<"E", "2", "E">>,
   <<"a", "p", "i">>,
   <<"P", "E", "R", "F">>,
   <<"A", "P", "I", "L", "A", "Y", "E", "R">>,
   <<"A", "P", "I", "L", "A", "Y", "E", "R", "S">>}
Modules ==
  {<<"S">>,
   <<"S", "Y", "N", "C">>,
   <<"s", "y", "n", "c">>,
   <<"I", "N", "B", "O", "X">>,
   <<"W", "O", "R", "K", "F", "L", "O", "W">>,
   <<"S", "E", "A", "R", "C", "H">>,
   <<"L", "O", "N", "G", "N", "A", "M", "E", "H", "E", "R", "E">>,
   <<"S", "Y", "N", "C", "H", "R", "O", "N", "I", "Z", "I", "N", "G">>}
Numbers ==
  {<<"1">>,
   <<"0", "0", "1">>,
   <<"0", "4", "2">>,
   <<"1", "0", "0">>,
   <<"0", "0", "5">>,
   <<"1", "4", "0">>,
   <<"0", "0", "0", "1">>}
IdSegments ==
  {<<p, l, m, n>> : p \in Prefixes, l \in Layers, m \in Modules, n \in Numbers}
  \cup {<<p, x, n>> : p \in Prefixes, x \in Layers \cup Modules, n \in Numbers}
  \cup {<<p, n>> : p \in Prefixes, n \in Numbers}
IdOf(segments) == Join(segments, "-")

call_validateCustomId ==
  /\ script = "validateCustomId"
  /\ Returns(validateCustomId(IdOf(arg)))

call_validateTestId ==
  /\ script = "validateTestId"
  /\ Returns(validateTestId(IdOf(arg)))

\* ----------------------------------------------- updateTestCase's payload
\* a property the object does not have reads as undefined
Undefined == "undefined"
field(r, f) == IF f \in DOMAIN r THEN r[f] ELSE Undefined
\* value || '' of a text property
orEmpty(r, f) == IF f \in DOMAIN r THEN r[f] ELSE ""
Without(r, F) == [x \in DOMAIN r \ F |-> r[x]]
Put(m, k, v) == [x \in DOMAIN m \cup {k} |-> IF x = k THEN v ELSE m[x]]

mapTestType(type) ==
  CASE type = "functional" -> 1 [] type = "smoke" -> 2 [] type = "regression" -> 3
    [] type = "security" -> 4 [] type = "usability" -> 5
    [] type = "performance" -> 6 [] type = "acceptance" -> 7 [] OTHER -> 1
\* sync-single-case.js knows three types more
single_mapTestType(type) ==
  CASE type = "compatibility" -> 8 [] type = "integration" -> 9
    [] type = "exploratory" -> 10 [] OTHER -> mapTestType(type)
mapTestLayer(layer) ==
  CASE layer = "e2e" -> 1 [] layer = "api" -> 2 [] layer = "unit" -> 3 [] OTHER -> 1
mapSeverity(severity) ==
  CASE severity = "blocker" -> 1 [] severity = "critical" -> 2
    [] severity = "major" -> 3 [] severity = "normal" -> 4
    [] severity = "minor" -> 5 [] severity = "trivial" -> 6 [] OTHER -> 4
mapBehavior(behavior) ==
  CASE behavior = "positive" -> 1 [] behavior = "negative" -> 2
    [] behavior = "destructive" -> 3 [] OTHER -> Null
mapPriority(priority) ==
  CASE priority = "high" -> 1 [] priority = "medium" -> 2 [] priority = "low" -> 3
    [] OTHER -> 2

\* the steps of the payload: a step object with an action gives its action and
\* expected_result; anything else is taken as the action itself
stepsOf(testCase) ==
  IF "steps" \in DOMAIN testCase /\ Len(testCase.steps) > 0
  THEN [index \in 1..Len(testCase.steps) |->
          LET step == testCase.steps[index]
          IN IF step.action # ""
             THEN [action |-> step.action,
                   expected_result |-> orEmpty(step, "expected_result"),
                   position |-> index]
             ELSE [action |-> step, expected_result |-> "", position |-> index]]
  ELSE <<>>

\* config.qase.customFields || { customId: 1 }
fieldConfigOf(config) ==
  IF "customFields" \in DOMAIN config THEN config.customFields ELSE [customId |-> 1]

\* existingCase.custom_fields.find(f => f.id === 2), when it has a value that
\* is neither null nor undefined: the set of such values, of the first match
lastRunValues(existing) ==
  IF "custom_fields" \notin DOMAIN existing THEN {}
  ELSE LET cf == existing.custom_fields
           at == {i \in 1..Len(cf) : cf[i].id = 2}
       IN IF at = {} THEN {}
          ELSE IF "value" \in DOMAIN cf[Min(at)] THEN {cf[Min(at)].value} ELSE {}

\* a customFields object that sets field 2 as bulk creation does
lastRunAsCreated(config, testCase, existing) ==
  Put(EmptyMap, 2, "4")

\* the customFields object of the payload, in the order the code assigns
customFieldsOf(config, testCase, existing) ==
  LET fieldConfig == fieldConfigOf(config)
      c1 == IF "customId" \in DOMAIN fieldConfig /\ fieldConfig.customId # 0
            THEN Put(EmptyMap, fieldConfig.customId, testCase.id) ELSE EmptyMap
      c2 == IF lastRunValues(existing) # {}
            THEN Put(c1, 2, CHOOSE v \in lastRunValues(existing) : TRUE) ELSE c1
  IN IF /\ "testFilePath" \in DOMAIN fieldConfig /\ fieldConfig.testFilePath # 0
        /\ orEmpty(testCase, "filePath") # ""
     THEN Put(c2, fieldConfig.testFilePath, testCase.filePath) ELSE c2

\* updateData without behavior; type is the mapped type
updateFields(config, testCase, existing, suite, type) ==
  [title |-> testCase.title,
   description |-> orEmpty(testCase, "description"),
   preconditions |-> orEmpty(testCase, "preconditions"),
   postconditions |-> orEmpty(testCase, "postconditions"),
   suite_id |-> suite,
   severity |-> mapSeverity(field(testCase, "severity")),
   priority |-> mapPriority(field(testCase, "priority")),
   type |-> type,
   layer |-> mapTestLayer(field(testCase, "layer")),
   is_flaky |-> IF "isFlaky" \in DOMAIN testCase /\ testCase.isFlaky THEN 1 ELSE 0,
   automation |-> IF field(testCase, "automation") = "automated" THEN 2 ELSE 0,
   status |-> IF field(testCase, "status") = "actual" THEN 0 ELSE 1,
   steps |-> stepsOf(testCase),
   tags |-> IF "tags" \in DOMAIN testCase THEN testCase.tags ELSE <<>>,
   custom_field |-> customFieldsOf(config, testCase, existing)]

\* a payload that keeps the remote description when the record has one
remoteFirstData(config, testCase, existing, suite) ==
  [updateFields(config, testCase, existing, suite,
                mapTestType(field(testCase, "type")))
     EXCEPT !.description = existing.description]

\* updateData of sync-to-qase.js: behavior is added when it maps to a value
updateData(config, testCase, existing, suite) ==
  LET d == updateFields(config, testCase, existing, suite,
                        mapTestType(field(testCase, "type")))
      behavior == mapBehavior(field(testCase, "behavior"))
  IN IF behavior # Null THEN Put(d, "behavior", behavior) ELSE d

\* updateData of sync-single-case.js
single_updateData(config, testCase, existing, suite) ==
  updateFields(config, testCase, existing, suite,
               single_mapTestType(field(testCase, "type")))

\* local tests: every property present, some absent, some with other values
Step(action, data, expected) ==
  [action |-> action, data |-> data, expected_result |-> expected]
LocalBase ==
  [id |-> ID1, title |-> "t", description |-> "d", preconditions |-> "p",
   postconditions |-> "q", severity |-> "critical", priority |-> "high",
   type |-> "smoke", layer |-> "api", behavior |-> "negative", isFlaky |-> TRUE,
   automation |-> "automated", status |-> "actual",
   steps |-> <<Step("a", "", "e"), Step("b", "x", "")>>,
   tags |-> <<"smoke">>, filePath |-> "f.spec.ts"]
Optional ==
  {"description", "severity", "type", "steps", "behavior", "isFlaky", "filePath"}
LocalTests ==
  {Without(LocalBase, F) : F \in SUBSET Optional}
  \cup {Without(LocalBase, {"preconditions", "postconditions", "priority", "layer",
                            "automation", "status", "tags"}),
        [LocalBase EXCEPT !.title = "u"],
        [LocalBase EXCEPT !.description = ""],
        [LocalBase EXCEPT !.severity = "bogus", !.priority = "low"],
        [LocalBase EXCEPT !.type = "integration", !.layer = "unit"],
        [LocalBase EXCEPT !.behavior = "bogus", !.isFlaky = FALSE],
        [LocalBase EXCEPT !.steps = <<>>],
        [LocalBase EXCEPT !.steps = <<Step("a", "", "e"), Step("", "", "")>>],
        [LocalBase EXCEPT !.automation = "manual", !.status = "draft"]}

\* remote records: with other values than the local test in every field, with
\* the same values in some, and with the custom fields a record can carry
Field(id, value) == [id |-> id, value |-> value]
RemoteBase ==
  [id |-> 7, title |-> "remote t", description |-> "remote d",
   preconditions |-> "remote p", postconditions |-> "remote q",
   severity |-> 1, priority |-> 3, type |-> 5, layer |-> 3, is_flaky |-> 0,
   steps |-> <<[action |-> "remote a", expected_result |-> "remote e",
                position |-> 1]>>,
   custom_fields |-> <<Field(1, ID1), Field(2, "passed")>>]
CustomFieldLists ==
  {<<>>, <<Field(1, ID1)>>, <<Field(1, ID2), Field(2, "failed")>>,
   <<Field(2, "")>>, <<[id |-> 2]>>, <<[id |-> 2], Field(1, ID1)>>}
ExistingCases ==
  {RemoteBase, Without(RemoteBase, {"custom_fields"}),
   [RemoteBase EXCEPT !.title = "t", !.description = "d", !.is_flaky = 1],
   [RemoteBase EXCEPT !.severity = 2, !.priority = 1, !.type = 2, !.layer = 2,
                      !.steps = <<>>]}
  \cup {[RemoteBase EXCEPT !.custom_fields = cf] : cf \in CustomFieldLists}

\* configurations: field 2 is the project's last-run-result field, so no other
\* field is configured with that id
Configs ==
  {[projectCode |-> "EA"],
   [projectCode |-> "EA", customFields |-> [customId |-> 1]],
   [projectCode |-> "EA", customFields |-> [customId |-> 1, testFilePath |-> 3]],
   [projectCode |-> "EA", customFields |-> [testFilePath |-> 3]]}
SuiteIds == {Null, 5}
UpdateArgs ==
  [config : Configs, testCase : LocalTests, existingCase : ExistingCases,
   suiteId : SuiteIds]

call_updateTestCase ==
  /\ script = "updateTestCase"
  /\ Returns(updateData(arg.config, arg.testCase, arg.existingCase, arg.suiteId))

call_single_updateTestCase ==
  /\ script = "single_updateTestCase"
  /\ Returns(single_updateData(arg.config, arg.testCase, arg.existingCase,
                               arg.suiteId))

\* ------------------- extractNestedDescribePath of update-qase-annotations.js
\* line.includes(testId)
lineIncludes(line, testId) ==
  \E p \in 1..(Len(line) - Len(testId) + 1) :
    SubSeq(line, p, p + Len(testId) - 1) = testId

\* /test\.describe\(['"`]([^'"`]+)['"`]/ matched at d of the line
update_describeAt(line, d) ==
  /\ At(line, d) = "test.describe" /\ At(line, d + 1) = "("
  /\ At(line, d + 2) \in QUOTES
  /\ RunEnd(line, d + 3, QUOTES) > d + 3
  /\ RunEnd(line, d + 3, QUOTES) <= Len(line)
update_describes(line) == {d \in 1..Len(line) : update_describeAt(line, d)}
update_describeName(line) ==
  LET d == Min(update_describes(line))
  IN Trim(SubSeq(line, d + 3, RunEnd(line, d + 3, QUOTES) - 1))

occurrences(line, a) == Cardinality({j \in 1..Len(line) : line[j] = a})

\* braceDepth === 0
popsAtDepth(depth) == depth = 0

\* one line that is not the line of the test: the name pushed, the depth
\* moved, the last name popped when the depth is back at 0
update_lineStep(w, line) ==
  LET pushed == IF update_describes(line) # {}
                THEN Append(w.describePath, update_describeName(line))
                ELSE w.describePath
      inDescribe == w.inDescribe \/ update_describes(line) # {}
      depth == w.braceDepth + occurrences(line, "{") - occurrences(line, "}")
  IN [w EXCEPT
        !.inDescribe = inDescribe,
        !.braceDepth = depth,
        !.describePath =
          IF inDescribe /\ popsAtDepth(depth) /\ occurrences(line, "}") > 0 /\ pushed # <<>>
          THEN SubSeq(pushed, 1, Len(pushed) - 1) ELSE pushed]

RECURSIVE update_lines(_, _)
\* the loop over the lines, left at the first line that holds the identifier
update_lines(w, lines) ==
  IF lines = <<>> THEN w
  ELSE IF lineIncludes(Head(lines), w.testId) THEN [w EXCEPT !.foundTest = TRUE]
  ELSE update_lines(update_lineStep(w, Head(lines)), Tail(lines))

\* the names the function joins with a tab; <<>> stands for null
update_extractNestedDescribePath(s, testId) ==
  LET w == update_lines([describePath |-> <<>>, braceDepth |-> 0,
                         inDescribe |-> FALSE, foundTest |-> FALSE,
                         testId |-> testId], Split(s, "\n"))
  IN IF w.foundTest /\ testId # <<>> THEN w.describePath ELSE <<>>

\* both functions applied to one file and one identifier
PathArgs == [fileContent : {Render(ds) : ds \in Plain}, testId : {IDa, IDb, IDc}]
call_extractNestedDescribePath ==
  /\ script = "extractNestedDescribePath"
  /\ \E u \in {update_extractNestedDescribePath(arg.fileContent, arg.testId)} :
     \E e \in {parentDescribes(arg.fileContent, arg.testId)} :
       Returns([update |-> u, extract |-> e])

\* a function of the scripts applied to one input: arg holds the input, result
\* the value returned
PureInit ==
  /\ NoSync /\ NoFile /\ NoPipeline
  /\ pc = "call" /\ result = <<>>
  /\ \/ script = "extractSteps" /\ arg \in StepArgs
     \/ script \in {"validateCustomId", "validateTestId"} /\ arg \in IdSegments
     \/ script \in {"updateTestCase", "single_updateTestCase"} /\ arg \in UpdateArgs
     \/ script = "extractNestedDescribePath" /\ arg \in PathArgs

\* ------------------------------------------------------------- full-sync
\* A child process as full-sync sees it: the command, its arguments, its exit
\* status, the kinds of files it wrote, whether it sent a request to the
\* remote service, whether a create or update call of it failed, and the
\* process that started it.
Child(command, args, status, wrote, requests, by) ==
  [command |-> command, args |-> args, status |-> status, wrote |-> wrote,
   requests |-> requests, failedCalls |-> FALSE, by |-> by]

\* review-test-standards.js reads the test files and exits with 1 when a file
\* has issues
ReviewOutcomes(by) ==
  {Child("review-test-standards.js", <<>>, st, {}, FALSE, by) : st \in {"0", "1"}}

\* generate-csv.js writes the CSV as its last step, and with --debug the JSON
\* file before it; the scan may throw before either
GenerateCsvOutcomes(args, by) ==
  LET json == IF Includes(args, "--debug") THEN {"json"} ELSE {}
  IN {Child("generate-csv.js", args, "0", {"csv"} \cup json, FALSE, by)}
     \cup {Child("generate-csv.js", args, "1", w, FALSE, by) : w \in {{}, json}}

\* sync-to-qase.js ends with 0 when main returns, whatever calls failed, and
\* with 1 when main throws (the scan, the configuration)
SyncToQaseOutcomes(by) ==
  {[Child("sync-to-qase.js", <<>>, "0", {}, TRUE, by) EXCEPT !.failedCalls = f] :
     f \in BOOLEAN}
  \cup {Child("sync-to-qase.js", <<>>, "1", {}, r, by) : r \in BOOLEAN}

\* update-qase-annotations.js rewrites the test files that need a change, with
\* a backup of each
AnnotationWrites == {{}, {"source", "source.backup"}}
AnnotationOutcomes(by) ==
  {Child("update-qase-annotations.js", <<>>, st, w, FALSE, by) :
     st \in {"0", "1"}, w \in AnnotationWrites}

\* sync-from-qase.js: the fetch and the CSV update, then its own two child
\* processes, update-qase-annotations.js and generate-csv.js; it ends with 1
\* at the first step that fails
SyncFromQaseOutcomes(by) ==
  LET me == "sync-from-qase.js"
      csv == {"csv", "csv.backup"}
  IN {<<Child(me, <<>>, "1", {}, r, by)>> : r \in BOOLEAN}
     \cup {<<Child(me, <<>>, "1", csv, TRUE, by), a>> :
             a \in {c \in AnnotationOutcomes(me) : c.status = "1"}}
     \cup {<<Child(me, <<>>, g.status, csv, TRUE, by), a, g>> :
             a \in {c \in AnnotationOutcomes(me) : c.status = "0"},
             g \in {c \in GenerateCsvOutcomes(<<>>, me) : c.wrote \in {{}, {"csv"}}}}

\* runCommand: true when the child ended with status 0
runCommand(child) == child.status = "0"

\* a main that does not look at the review
ignoreReview(opts, reviewResult) == "step1"

\* where main goes after the pre-flight review
afterReview(opts, reviewResult) ==
  IF ~reviewResult /\ ~opts.force THEN "exit" ELSE "step1"

\* the arguments of generate-csv.js in step 1
generateCsvArgs(opts) ==
  (IF opts.updateOnly THEN <<"--update">> ELSE <<>>)
  \o (IF opts.debug THEN <<"--debug">> ELSE <<>>)

\* a main that goes on after an update of the CSV
alwaysSync(opts) == "step2"

\* where main goes after step 1 succeeded
afterCsv(opts) == IF opts.updateOnly THEN "done" ELSE "step2"

\* what a step of the pipeline leaves alone
besidesPipeline ==
  <<parser, script, target, testCases, options, offset, allEntities, remote, single, run,
    existingSuites, titleMap, qaseIdMap, toUpdate, toCreate, phase, gi, ii, ens,
    suiteId, totalUpdated, totalCreated, totalFailed, allIdMappings, log,
    failures, bound, resolved, prev>>

\* main moves to position next; "exit" is process.exit(1), "done" the return
GoTo(next) ==
  /\ pc' = IF next = "exit" THEN "done" ELSE next
  /\ exitCode' = CASE next = "exit" -> "1" [] next = "done" -> "0" [] OTHER -> exitCode

Flags == [skipUpdate : BOOLEAN, updateOnly : BOOLEAN, debug : BOOLEAN,
          skipReview : BOOLEAN, force : BOOLEAN]

FullInit ==
  /\ script = "full-sync"
  /\ NoSync /\ NoParser
  /\ options \in Flags /\ ran = <<>> /\ NoPaging
  /\ pc = "step0"

\* step 0: the pre-flight review, unless --skip-review
step0 ==
  /\ script = "full-sync" /\ pc = "step0"
  /\ \/ /\ options.skipReview
        /\ GoTo("step1")
        /\ UNCHANGED ran
     \/ /\ ~options.skipReview
        /\ \E child \in ReviewOutcomes("full-sync.js") :
             /\ ran' = Append(ran, child)
             /\ GoTo(afterReview(options, runCommand(child)))
  /\ UNCHANGED besidesPipeline

\* step 1: generate-csv.js; with --update-only main returns after it
step1 ==
  /\ pc = "step1"
  /\ \E child \in GenerateCsvOutcomes(generateCsvArgs(options), "full-sync.js") :
       /\ ran' = Append(ran, child)
       /\ GoTo(IF runCommand(child) THEN afterCsv(options) ELSE "exit")
  /\ UNCHANGED besidesPipeline

\* step 2: sync-to-qase.js
step2 ==
  /\ pc = "step2"
  /\ \E child \in SyncToQaseOutcomes("full-sync.js") :
       /\ ran' = Append(ran, child)
       /\ GoTo(IF runCommand(child) THEN "step3" ELSE "exit")
  /\ UNCHANGED besidesPipeline

\* step 3: sync-from-qase.js
step3 ==
  /\ pc = "step3"
  /\ \E children \in SyncFromQaseOutcomes("full-sync.js") :
       /\ ran' = ran \o children
       /\ GoTo(IF runCommand(children[1]) THEN "step4" ELSE "exit")
  /\ UNCHANGED besidesPipeline

\* step 4: update-qase-annotations.js unless --skip-update; its failure is
\* reported and the pipeline goes on
step4 ==
  /\ pc = "step4"
  /\ \/ /\ options.skipUpdate
        /\ UNCHANGED ran
     \/ /\ ~options.skipUpdate
        /\ \E child \in AnnotationOutcomes("full-sync.js") : ran' = Append(ran, child)
  /\ GoTo("step5")
  /\ UNCHANGED besidesPipeline

\* step 5: the review again; its result is reported only
step5 ==
  /\ pc = "step5"
  /\ \E child \in ReviewOutcomes("full-sync.js") : ran' = Append(ran, child)
  /\ GoTo("done")
  /\ UNCHANGED besidesPipeline

\* ------------------------------------------------------------ the commands
Next ==
  \/ getSuites
  \/ getExistingCases
  \/ classify
  \/ beginGroup
  \/ ensureSuiteHierarchy
  \/ updateItem
  \/ bulkCreate
  \/ endLoop
  \/ reinvoke

Spec == Init /\ [][Next]_vars

\* the three sync commands, each on every input
SyncInit ==
  /\ script \in {"sync-to-qase", "sync-single-case", "sync-from-qase"}
  /\ target \in (IF script = "sync-single-case" THEN Args ELSE {NoArg})
  /\ (InitCases \/ InitSuites)
  /\ InitMemory
  /\ NoParser /\ NoPipeline

SyncNext ==
  \/ Next
  \/ single_main
  \/ getExistingCase
  \/ single_getSuites
  \/ single_ensureSuiteHierarchy
  \/ single_updateTestCase
  \/ getAllSuites
  \/ getAllTestCases
  \/ writeBack

SyncSpec == SyncInit /\ [][SyncNext]_vars

\* extract-tests on a file, update-qase-annotations on it, extract-tests again
ScanNext ==
  \/ rejectId
  \/ extractSuiteThrows
  \/ pushTestCase
  \/ noTestContent
  \/ scanReturns
  \/ updateFile

ScanSpec == ScanInit /\ [][ScanNext]_vars

\* the same, with update-qase-annotations run a second time at the end
TwiceNext ==
  \/ ScanNext
  \/ updateFileAgain

TwiceSpec == ScanInit /\ [][TwiceNext]_vars

PureNext ==
  \/ call_extractSteps
  \/ call_validateCustomId
  \/ call_validateTestId
  \/ call_updateTestCase
  \/ call_single_updateTestCase
  \/ call_extractNestedDescribePath

PureSpec == PureInit /\ [][PureNext]_vars

\* ------------------------------------------------------ the paginated fetch
\* const limit = 100
limit == 100

\* the largest remote set fetched
MaxRemote == 205

\* the remote entities, by id
Entities(n) == [i \in 1..n |-> i]

\* the entities the service returns for ?limit=&offset=: those after the
\* first offset ones, limit of them at most
pageOf(entities, lim, off) ==
  SubSeq(entities, off + 1, IF off + lim < Len(entities) THEN off + lim ELSE Len(entities))

\* a full page taken for the last one
fullPageIsLast(page) == Len(page) <= limit

\* if (suites.length < limit) break
isLastPage(page) == Len(page) < limit

Fetching == script \in {"getSuites", "getExistingCases"} /\ pc = "call"
besidesPaging == <<script, target, testCases, options, ran>>
FetchResult(ok, entities) == [ok |-> ok, entities |-> entities]

\* one turn of while (true) that does not break: offset += limit
fetchPage ==
  /\ Fetching
  /\ \E page \in {pageOf(arg, limit, offset)} :
       /\ ~isLastPage(page)
       /\ allEntities' = allEntities \o page
       /\ offset' = offset + limit
  /\ UNCHANGED <<pc, parser, besidesPaging, exitCode, single, remote, run,
                 existingSuites, titleMap, qaseIdMap, toUpdate, toCreate, phase,
                 gi, ii, ens, suiteId, totalUpdated, totalCreated, totalFailed,
                 allIdMappings, log, failures, bound, resolved, prev>>

\* the turn that breaks: the loop is left with every page pushed
fetchLastPage ==
  /\ Fetching
  /\ \E page \in {pageOf(arg, limit, offset)} :
       /\ isLastPage(page)
       /\ allEntities' = allEntities \o page
       /\ result' = <<FetchResult(TRUE, allEntities \o page)>>
  /\ pc' = "returned"
  /\ UNCHANGED <<source, fileContent, written, lastIndex, extracted, errors,
                 firstScan, qaseIdMapping, arg, offset, besidesPaging, exitCode,
                 single, remote, run, existingSuites, titleMap, qaseIdMap,
                 toUpdate, toCreate, phase, gi, ii, ens, suiteId, totalUpdated,
                 totalCreated, totalFailed, allIdMappings, log, failures, bound,
                 resolved, prev>>

\* qaseApiRequest rejects: catch (error) returns the empty result
fetchThrows ==
  /\ Fetching
  /\ result' = <<FetchResult(FALSE, <<>>)>>
  /\ pc' = "returned"
  /\ UNCHANGED <<source, fileContent, written, lastIndex, extracted, errors,
                 firstScan, qaseIdMapping, arg, fixed, exitCode,
                 single, remote, run, existingSuites, titleMap, qaseIdMap,
                 toUpdate, toCreate, phase, gi, ii, ens, suiteId, totalUpdated,
                 totalCreated, totalFailed, allIdMappings, log, failures, bound,
                 resolved, prev>>

PageInit ==
  /\ script \in {"getSuites", "getExistingCases"}
  /\ NoSync /\ NoFile /\ NoPipeline
  /\ arg \in {Entities(n) : n \in 0..MaxRemote}
  /\ pc = "call" /\ result = <<>>

PageNext ==
  \/ fetchPage
  \/ fetchLastPage
  \/ fetchThrows

\* every await settles: the request is answered or rejected
PageSpec == PageInit /\ [][PageNext]_vars /\ WF_vars(PageNext)

\* ------------------------------------------------------ cleanup-empty-suites
\* a number as parseInt returns it: NaN, or an integer
NaN == [nan |-> TRUE, n |-> 0]
Num(n) == [nan |-> FALSE, n |-> n]
cleanup_parseInt(text) ==
  CASE text = <<"0">> -> Num(0)
    [] text = <<"7">> -> Num(7)
    [] OTHER -> NaN

\* a command-line argument: a flag, or "--min-age=" and what follows it
YES == <<"--yes">>
YES_SHORT == <<"-y">>
DRY_RUN == <<"--dry-run">>
MinAge(text) == <<"--min-age=">> \o text

\* the flag that makes every argument the last word
lastWordYes(opts, a) == [opts EXCEPT !.dryRun = FALSE]

\* the body of for (const arg of args)
parseArg(opts, a) ==
  IF a = YES \/ a = YES_SHORT THEN [opts EXCEPT !.dryRun = FALSE]
  ELSE IF a = DRY_RUN THEN [opts EXCEPT !.dryRun = TRUE]
  ELSE IF a # <<>> /\ Head(a) = "--min-age="
       THEN [opts EXCEPT !.minAge = cleanup_parseInt(Tail(a))]
       ELSE opts

RECURSIVE cleanup_parseArgsFrom(_, _)
cleanup_parseArgsFrom(opts, args) ==
  IF args = <<>> THEN opts
  ELSE cleanup_parseArgsFrom(parseArg(opts, Head(args)), Tail(args))
cleanup_parseArgs(args) ==
  cleanup_parseArgsFrom([dryRun |-> TRUE, minAge |-> Num(0)], args)

\* a suite as GET /suite lists it; its age in days stands for its created date
Listed(id, parentId, count, age) ==
  [id |-> id, title |-> A, parent_id |-> parentId, cases_count |-> count,
   age |-> age]

\* the age test passed by every suite
anyAge(age, days) == TRUE

\* isOlderThan: diffDays >= days; a comparison with NaN is false
isOlderThan(age, days) ==
  IF ~days.nan /\ days.n = 0 THEN TRUE
  ELSE ~days.nan /\ age >= days.n

\* the filter of main
isEmptySuite(suite, allSuites, opts) ==
  /\ suite.cases_count = 0
  /\ ~\E i \in DOMAIN allSuites : allSuites[i].parent_id = suite.id
  /\ isOlderThan(suite.age, opts.minAge)
emptySuites(allSuites, opts) ==
  LET Keep(suite) == isEmptySuite(suite, allSuites, opts)
  IN SelectSeq(allSuites, Keep)

\* DELETE /suite/{code}/{id}
cleanup_deleteSuite(id, ok) == [qaseApiRequest("DELETE", "suite", ok) EXCEPT !.id = id]

besidesCleanup ==
  <<source, fileContent, written, lastIndex, extracted, errors, firstScan,
    qaseIdMapping, arg, result, script, target, testCases, ran, offset,
    allEntities, remoteCases, suiteSeq, caseSeq, single, run, titleMap,
    qaseIdMap, toUpdate, toCreate, phase, gi, ens, suiteId, totalUpdated,
    totalCreated, totalFailed, allIdMappings, bound, resolved, prev>>

\* main up to the loop: the arguments, the snapshot, the filter, the preview;
\* a failed GET /suite is thrown to main().catch
cleanup_main ==
  /\ script = "cleanup-empty-suites" /\ pc = "main"
  /\ \E opts \in {cleanup_parseArgs(arg)} :
       /\ options' = opts
       /\ \/ /\ existingSuites' = remoteSuites
             /\ log' = Append(log, qaseApiRequest("GET", "suite", TRUE))
             /\ pc' = IF emptySuites(remoteSuites, opts) = <<>> \/ opts.dryRun
                      THEN "done" ELSE "delete"
             /\ UNCHANGED <<exitCode, failures>>
          \/ /\ failures < MaxFailures
             /\ log' = Append(log, qaseApiRequest("GET", "suite", FALSE))
             /\ failures' = failures + 1
             /\ exitCode' = "1" /\ pc' = "done"
             /\ UNCHANGED existingSuites
  /\ ii' = 1
  /\ UNCHANGED <<besidesCleanup, remoteSuites>>

\* one turn of for (const suite of emptySuites): the suite is deleted, or the
\* request fails and is counted
cleanup_delete ==
  /\ script = "cleanup-empty-suites" /\ pc = "delete"
  /\ \E list \in {emptySuites(existingSuites, options)} :
       /\ ii <= Len(list)
       /\ \/ /\ log' = Append(log, cleanup_deleteSuite(list[ii].id, TRUE))
             /\ \E gone \in {list[ii].id} :
                  LET Stays(suite) == suite.id # gone
                  IN remoteSuites' = SelectSeq(remoteSuites, Stays)
             /\ UNCHANGED failures
          \/ /\ failures < MaxFailures
             /\ log' = Append(log, cleanup_deleteSuite(list[ii].id, FALSE))
             /\ failures' = failures + 1
             /\ UNCHANGED remoteSuites
       /\ ii' = ii + 1
       /\ pc' = IF ii + 1 > Len(list) THEN "done" ELSE "delete"
  /\ UNCHANGED <<besidesCleanup, options, existingSuites, exitCode>>

\* the arguments tried: up to two of the flags and the --min-age values
CleanupArgs == {YES, YES_SHORT, DRY_RUN, MinAge(<<"0">>), MinAge(<<"7">>), MinAge(<<"x">>)}
Argvs == {<<>>} \cup {<<a>> : a \in CleanupArgs}
         \cup {<<a, b>> : a \in CleanupArgs, b \in CleanupArgs}

\* remote suites: three of them, the second and third at the root or below an
\* earlier one, each with or without cases, three or ten days old
ListedSuites ==
  {<<Listed(1, Null, c[1], g[1]), Listed(2, p2, c[2], g[2]),
     Listed(3, p3, c[3], g[3])>> :
     p2 \in {Null, 1}, p3 \in {Null, 2}, c \in [1..3 -> {0, 2}],
     g \in [1..3 -> {3, 10}]}

CleanupInit ==
  /\ script = "cleanup-empty-suites"
  /\ target = NoArg /\ testCases = <<>>
  /\ remoteSuites \in ListedSuites /\ suiteSeq = 3
  /\ remoteCases = <<>> /\ caseSeq = 0
  /\ InitMemory
  /\ NoFile /\ NoPipeline
  /\ arg \in Argvs /\ result = <<>>

CleanupNext ==
  \/ cleanup_main
  \/ cleanup_delete

CleanupSpec == CleanupInit /\ [][CleanupNext]_vars

FullNext ==
  \/ step0
  \/ step1
  \/ step2
  \/ step3
  \/ step4
  \/ step5

FullSpec == FullInit /\ [][FullNext]_vars


\* ------------------------------------------------------------- properties
Classified == pc \notin {"main", "getExistingCases", "classify"}

InList(list, k) == \E i \in DOMAIN list : list[i].testCase = k
IsRequest(e) == e.kind = "request"
\* the last entry of the log that is not the delay that follows a request
Latest == log[Max({i \in DOMAIN log : log[i].kind # "delay"})]
IsWrite(e) == IsRequest(e) /\ e.endpoint \in {"case", "case/bulk"} /\ e.method # "GET"
Carries(e, k) == \E i \in DOMAIN e.tests : e.tests[i] = k

\* test k is in the update list, once, with the remote record of this id
UpdateOf(k, id) ==
  /\ \E i \in DOMAIN toUpdate : toUpdate[i].testCase = k /\ toUpdate[i].existing.id = id
  /\ \A i \in DOMAIN toUpdate : toUpdate[i].testCase = k => toUpdate[i].existing.id = id
  /\ ~InList(toCreate, k)

\* C1: a test whose qase.id() value is the id of a fetched remote record is in
\* the update list with that record as its target, whatever the titles are; it
\* is not in the create list and not bound to another record.
C1_IdBindingDominates ==
  Classified =>
    \A k \in DOMAIN testCases :
      (testCases[k].qase_id # Null /\ testCases[k].qase_id \in DOMAIN qaseIdMap)
        => /\ UpdateOf(k, testCases[k].qase_id)
           /\ \A e \in {log[i] : i \in DOMAIN log} :
                (IsWrite(e) /\ Carries(e, k))
                  => (e.method = "PATCH" /\ e.id = testCases[k].qase_id)

\* C1 witness: an update was sent to the record named by qase.id() although that
\* record's title differs and another remote record carries the test's title
C1_Witness ==
  \E k \in DOMAIN testCases, i \in DOMAIN log :
    /\ IsWrite(log[i]) /\ Carries(log[i], k) /\ log[i].ok
    /\ testCases[k].qase_id \in DOMAIN qaseIdMap
    /\ qaseIdMap[testCases[k].qase_id].title # testCases[k].title
    /\ testCases[k].title \in DOMAIN titleMap
    /\ titleMap[testCases[k].title].id # testCases[k].qase_id

\* C2 (as claimed): a test without a resolvable remote id whose identifier is the
\* custom-identifier field of a fetched remote record is in the update list with
\* such a record, also when no record has its title; it is not in the create list.
C2_CustomIdMatch ==
  Classified =>
    \A k \in DOMAIN testCases :
      (/\ matchByQaseId(testCases[k], qaseIdMap) = NoCase
       /\ \E n \in DOMAIN qaseIdMap : qaseIdMap[n].custom_id = testCases[k].id)
        => /\ \E i \in DOMAIN toUpdate :
                /\ toUpdate[i].testCase = k
                /\ toUpdate[i].existing.custom_id = testCases[k].id
           /\ ~InList(toCreate, k)

\* C3: a test without qase.id() whose full title is the title of a fetched remote
\* record is in the update list with the record the title index holds, and right
\* after its update call succeeds allIdMappings holds that record's id for the
\* test's identifier.
C3_TitleMatchCapturesId ==
  Classified =>
    \A k \in DOMAIN testCases :
      (testCases[k].qase_id = Null /\ testCases[k].title \in DOMAIN titleMap)
        => /\ UpdateOf(k, titleMap[testCases[k].title].id)
           /\ titleMap[testCases[k].title].title = testCases[k].title
           /\ (/\ log # <<>>
               /\ IsWrite(Latest) /\ Latest.ok
               /\ Carries(Latest, k))
                => /\ testCases[k].id \in DOMAIN allIdMappings
                   /\ allIdMappings[testCases[k].id].qase_id
                        = titleMap[testCases[k].title].id

\* C3 witness: the update of a title-matched test without qase.id() just succeeded
C3_Witness ==
  /\ log # <<>>
  /\ \E k \in DOMAIN testCases :
       /\ testCases[k].qase_id = Null
       /\ testCases[k].title \in DOMAIN titleMap
       /\ Latest.method = "PATCH" /\ Latest.ok
       /\ Carries(Latest, k)

\* a test whose qase.id() names no fetched record and whose title is indexed
StaleButTitled(k) ==
  /\ testCases[k].qase_id # Null
  /\ testCases[k].qase_id \notin DOMAIN qaseIdMap
  /\ testCases[k].title \in DOMAIN titleMap

\* C4: a test whose qase.id() value is no fetched record's id and whose title is a
\* remote record's title is in the update list with the title-matched record; no
\* request is addressed to the stale id, the test is not created, and a warning
\* naming the test is logged before any request for it.
C4_StaleIdFallsBackToTitle ==
  Classified =>
    \A k \in DOMAIN testCases :
      StaleButTitled(k)
        => /\ UpdateOf(k, titleMap[testCases[k].title].id)
           /\ \A j \in DOMAIN log :
                /\ (IsRequest(log[j]) /\ log[j].method # "GET" /\ log[j].endpoint = "case")
                     => log[j].id # testCases[k].qase_id
                /\ (IsWrite(log[j]) /\ Carries(log[j], k))
                     => /\ log[j].method = "PATCH"
                        /\ log[j].id = titleMap[testCases[k].title].id
           /\ \E i \in DOMAIN log :
                /\ log[i].kind \in {"warnMissing", "warnMismatch"}
                /\ Carries(log[i], k)
                /\ \A j \in DOMAIN log : (IsWrite(log[j]) /\ Carries(log[j], k)) => i < j

\* C4 witness: the update of a test with a stale qase.id() went to the
\* title-matched record
C4_Witness ==
  \E k \in DOMAIN testCases, j \in DOMAIN log :
    /\ StaleButTitled(k)
    /\ log[j].method = "PATCH" /\ log[j].ok /\ Carries(log[j], k)

DistinctIds ==
  \A i, j \in DOMAIN testCases : i # j => testCases[i].id # testCases[j].id

\* C5 (as claimed): after a run in which every remote call succeeded, a second run
\* on the same source text (identifiers distinct, every call succeeding again)
\* issues no bulk creation, and every test the first run wrote is classified as
\* update of the record the first run wrote for it.
C5_SecondRunCreatesNothing ==
  (run >= 2 /\ prev.completed /\ prev.allOk /\ AllOk(log) /\ DistinctIds)
    => /\ \A i \in DOMAIN log : log[i].endpoint # "case/bulk"
       /\ Classified =>
            \A k \in DOMAIN testCases :
              (k \in DOMAIN prev.bound /\ prev.bound[k] # Null)
                => UpdateOf(k, prev.bound[k])


Events == {log[i] : i \in DOMAIN log}
SuitesFetched == \E e \in Events : IsRequest(e) /\ e.method = "GET" /\ e.endpoint = "suite" /\ e.ok
SuitePosts == {i \in DOMAIN log : IsRequest(log[i]) /\ log[i].method = "POST"
                                     /\ log[i].endpoint = "suite" /\ log[i].ok}

\* C6: a path that ensureSuiteHierarchy resolved before (earlier in this run, or
\* in an earlier run when this run fetched the suites) is resolved again without
\* any suite-creation call and to the same leaf id.
C6_ResolveIdempotent ==
  \A e \in Events :
    (/\ e.kind = "resolved"
     /\ e.prior # Null
     /\ (e.priorRun = run \/ SuitesFetched))
      => (e.posts = 0 /\ e.id = e.prior)

\* C6 witness: a later run resolved a path whose suites the previous run created
C6_Witness ==
  \E e \in Events :
    /\ e.kind = "resolved" /\ e.prior # Null /\ e.priorRun < run
    /\ SuitesFetched
    /\ \E i \in DOMAIN remoteSuites : remoteSuites[i].id = e.id /\ i > Len(remoteSuites) - 1

SameSibling(s, t) ==
  s.title = t.title /\ s.parent_id = t.parent_id

UniqueSiblings(suites) ==
  \A i, j \in DOMAIN suites : (i # j) => ~SameSibling(suites[i], suites[j])

\* the suite list getSuites returned in this run: the remote list without the
\* suites this run created since, or nothing when the fetch failed
Fetched ==
  IF SuitesFetched
  THEN SubSeq(remoteSuites, 1, Len(remoteSuites) - Cardinality(SuitePosts))
  ELSE <<>>

\* C7: when the fetched suite list has no two suites of one title under one
\* parent, neither has the in-memory list at any point of the run, and every
\* suite of the in-memory list that was not fetched comes from exactly one
\* successful POST, no two of which created the same title under the same parent.
C7_SiblingsStayUnique ==
  (pc # "main" /\ UniqueSiblings(Fetched))
    => /\ UniqueSiblings(existingSuites)
       /\ Len(existingSuites) = Len(Fetched) + Cardinality(SuitePosts)
       /\ \A i \in DOMAIN existingSuites :
            i > Len(Fetched)
              => Cardinality({j \in SuitePosts : log[j].id = existingSuites[i].id}) = 1
       /\ \A i, j \in SuitePosts :
            (i # j) => ~(log[i].title = log[j].title /\ log[i].suite_id = log[j].suite_id)

\* C7 witness: two different paths with a common missing first level were both
\* resolved in one run, each with a creation
C7_Witness ==
  /\ UniqueSiblings(Fetched)
  /\ \E e, f \in Events :
       /\ e.kind = "resolved" /\ f.kind = "resolved"
       /\ e.path # f.path /\ e.posts > 0 /\ f.posts > 0
       /\ parseSuitePath(e.path)[1] = parseSuitePath(f.path)[1]

RECURSIVE chainTitles(_, _)
\* the titles from the root down to the suite of this id in the remote list
chainTitles(suites, id) ==
  IF id = Null \/ ~\E i \in DOMAIN suites : suites[i].id = id THEN <<>>
  ELSE LET s == suites[CHOOSE i \in DOMAIN suites : suites[i].id = id]
       IN chainTitles(suites, s.parent_id) \o <<s.title>>

\* C8 (as claimed): the suite_id of every update or bulk-create request is the id
\* of the suite whose titles from the root down are the group names the parser
\* reported for each test of the request.
C8_LeafOfReportedGroups ==
  \A e \in Events :
    IsWrite(e) =>
      \A i \in DOMAIN e.tests :
        chainTitles(remoteSuites, e.suite_id) = testCases[e.tests[i]].groups

IsPrefix(s, t) == Len(s) <= Len(t) /\ SubSeq(t, 1, Len(s)) = s

\* C9: no run of sync-to-qase, sync-single-case or sync-from-qase issues a
\* DELETE request, and no step of a run removes or changes a remote suite or
\* removes a remote case: the suite list only grows at its end and the case
\* ids stay.
C9_SyncNeverDeletes ==
  /\ [](\A i \in DOMAIN log : IsRequest(log[i]) => log[i].method # "DELETE")
  /\ [][/\ IsPrefix(remoteSuites, remoteSuites')
        /\ Len(remoteCases) <= Len(remoteCases')
        /\ \A i \in DOMAIN remoteCases : remoteCases'[i].id = remoteCases[i].id]_vars

\* C9 witness: a run of sync-single-case that ended well after it created a
\* suite next to the suites that were there before, and changed a case
C9_Witness ==
  /\ script = "sync-single-case" /\ run = 1 /\ exitCode = "0"
  /\ Len(existingSuites) >= 2
  /\ \E i, j \in DOMAIN log :
       /\ log[i].method = "POST" /\ log[i].endpoint = "suite" /\ log[i].ok
       /\ log[j].method = "PATCH" /\ log[j].ok

Skips == {i \in DOMAIN log : log[i].kind = "skip"}

RECURSIVE SumFailed(_)
\* the tests the log shows as failed: those of skipped groups, of failed updates
\* and of failed bulk creations
SumFailed(l) ==
  IF l = <<>> THEN 0
  ELSE SumFailed(Tail(l))
       + (IF Head(l).kind = "skip" \/ (IsWrite(Head(l)) /\ ~Head(l).ok)
          THEN Len(Head(l).tests) ELSE 0)

Returned == IF result = <<>> THEN <<>> ELSE result[1].testCases
ReturnedErrors == IF result = <<>> THEN <<>> ELSE result[1].errors
ScanOver == script = "extract-tests" /\ pc \in {"returned", "thrown"}

\* a declaration in the form of extractSuite's example: a quoted title, an
\* async arrow function
ExampleForm(d) == d.quote \in {"'", "\""} /\ d.fn = "arrow"
\* the groups that enclose declaration k, joined as the parser joins them
groupPath(ds, k) == JoinPath(enclosing(ds, k, <<>>))

\* C11: a test outside every test.describe is rejected alone: when the scan
\* is over, every valid test of the file that has an enclosing group is in the
\* returned list
C11_UnresolvedPathIsPerTest ==
  (ScanOver /\ ~hasFiller(source)) =>
    \A k \in testDecls(source) :
      (/\ validateCustomId(source[k].id) /\ ExampleForm(source[k])
       /\ enclosing(source, k, <<>>) # <<>>)
      => \E i \in 1..Len(Returned) : Returned[i].id = source[k].id

\* C12: of n declarations, k of them with an identifier that fails
\* validateCustomId and the others well formed, the scan returns n - k tests
\* and k errors
InvalidDecls(ds) == {k \in testDecls(ds) : ~validateCustomId(ds[k].id)}
OthersWellFormed(ds) ==
  /\ ~hasFiller(ds)
  /\ \A k \in testDecls(ds) \ InvalidDecls(ds) :
       ExampleForm(ds[k]) /\ enclosing(ds, k, <<>>) # <<>>
C12_InvalidIdIsOneError ==
  (ScanOver /\ OthersWellFormed(source)) =>
    /\ pc = "returned"
    /\ Len(Returned) =
         Cardinality(testDecls(source)) - Cardinality(InvalidDecls(source))
    /\ Len(ReturnedErrors) = Cardinality(InvalidDecls(source))

\* C13: the path of an extracted test is the list of the groups whose block
\* encloses its declaration, outermost first
C13_PathIsEnclosingGroups ==
  (script = "extract-tests" /\ ~hasFiller(source)) =>
    \A i \in 1..Len(extracted) :
      extracted[i].suite = groupPath(source, declOf(source, extracted[i].id))

\* C14: brackets inside a string literal or a comment do not count: the path
\* of every test is the path found in the same file with these brackets
\* taken out
C14_BracketsInLiteralsIgnored ==
  script = "extract-tests" =>
    \A k \in testDecls(source) :
      extractNestedDescribePath(fileContent, source[k].id)
        = extractNestedDescribePath(Render(stripBrackets(source)), source[k].id)

\* C15: after updateFile has written its annotations, the scan returns the
\* identifiers it returned before, each with the container path it had
IdsAndPaths(tcs) == {<<tcs[i].id, tcs[i].suite>> : i \in 1..Len(tcs)}
WellFormed(ds) ==
  /\ ~hasFiller(ds)
  /\ \A k \in testDecls(ds) :
       /\ validateCustomId(ds[k].id) /\ ExampleForm(ds[k])
       /\ enclosing(ds, k, <<>>) # <<>>
C15_RescanAfterRewrite ==
  (ScanOver /\ firstScan # <<>> /\ WellFormed(source)) =>
    /\ pc = "returned"
    /\ IdsAndPaths(Returned) = IdsAndPaths(firstScan[1].testCases)
\* ---------------------------------------------------------------- C16
\* the step object the fields of one step text stand for
fieldsOf(fields) ==
  [action |-> Trim(fields[1]),
   data |-> IF Len(fields) >= 2 THEN Trim(fields[2]) ELSE <<>>,
   expected_result |-> IF Len(fields) >= 3 THEN Trim(fields[3]) ELSE <<>>]
StepsReturned == script = "extractSteps" /\ pc = "returned"

\* C16: extractSteps returns one step per test.step call, in source order,
\* each with the step text's fields between the pipes, trimmed, as action,
\* data and expected_result, a missing trailing field being empty.
C16_StepsAreTheFields ==
  StepsReturned =>
    /\ Len(result[1]) = Len(arg.texts)
    /\ \A i \in 1..Len(arg.texts) : result[1][i] = fieldsOf(arg.texts[i])

\* ---------------------------------------------------------------- C17
LOWER == {"a", "b", "c", "d", "e", "f", "g", "h", "i", "j", "k", "l", "m", "n",
          "o", "p", "q", "r", "s", "t", "u", "v", "w", "x", "y", "z"}
TC_API_SYNC_001 ==
  <<<<"T", "C">>, <<"A", "P", "I">>, <<"S", "Y", "N", "C">>, <<"0", "0", "1">>>>
Validated == script \in {"validateCustomId", "validateTestId"} /\ pc = "returned"
lacksLayer(segments) == Len(segments) = 3
lowerCase(segments) == \E i \in 1..Len(IdOf(segments)) : IdOf(segments)[i] \in LOWER
numberNotThreeDigits(segments) == Len(segments[Len(segments)]) # 3
lengthsOutOfBounds(segments) ==
  Len(segments) = 4 /\ (Len(segments[2]) \notin 2..8 \/ Len(segments[3]) \notin 2..12)

\* C17: both validators accept TC-API-SYNC-001 and reject an identifier that
\* has no layer segment, that holds a lower-case letter, whose number is not
\* three digits long, or whose layer or module length is out of bounds.
C17_ValidatorRejects ==
  Validated =>
    /\ arg = TC_API_SYNC_001 => result[1] = TRUE
    /\ ( \/ lacksLayer(arg) \/ lowerCase(arg)
         \/ numberNotThreeDigits(arg) \/ lengthsOutOfBounds(arg) )
       => result[1] = FALSE

\* TC-SYNC-001 was given to validateCustomId, which said no
C17_Witness ==
  /\ script = "validateCustomId" /\ pc = "returned"
  /\ arg = <<<<"T", "C">>, <<"S", "Y", "N", "C">>, <<"0", "0", "1">>>>
  /\ result = <<FALSE>>

\* ---------------------------------------------------------------- C18
\* the identifiers custom-id-standards.md lists as valid and as invalid
ListedValid ==
  {TC_API_SYNC_001,
   <<<<"T", "C">>, <<"U", "I">>, <<"I", "N", "B", "O", "X">>, <<"0", "4", "2">>>>,
   <<<<"T", "C">>, <<"E", "2", "E">>,
     <<"W", "O", "R", "K", "F", "L", "O", "W">>, <<"1", "0", "0">>>>,
   <<<<"T", "C">>, <<"P", "E", "R", "F">>,
     <<"S", "E", "A", "R", "C", "H">>, <<"0", "0", "5">>>>}
ListedInvalid ==
  {<<<<"E", "A">>, <<"1", "4", "0">>>>,
   <<<<"T", "C">>, <<"S", "Y", "N", "C">>, <<"0", "0", "1">>>>,
   <<<<"T", "C">>, <<"A", "P", "I">>, <<"0", "0", "1">>>>,
   <<<<"t", "c">>, <<"a", "p", "i">>, <<"s", "y", "n", "c">>, <<"0", "0", "1">>>>,
   <<<<"T", "C">>, <<"A", "P", "I">>, <<"S", "Y", "N", "C">>, <<"1">>>>,
   <<<<"T", "C">>, <<"A", "P", "I">>,
     <<"L", "O", "N", "G", "N", "A", "M", "E", "H", "E", "R", "E">>,
     <<"0", "0", "1">>>>}

\* C18: validateTestId accepts each identifier the standards list as valid and
\* rejects each identifier they list as invalid.
C18_ListedIdsJudgedAsListed ==
  (script = "validateTestId" /\ pc = "returned") =>
    /\ arg \in ListedValid => result[1] = TRUE
    /\ arg \in ListedInvalid => result[1] = FALSE

\* ---------------------------------------------------------------- C19
Updated == script \in {"updateTestCase", "single_updateTestCase"} /\ pc = "returned"
LocalFields ==
  {"title", "description", "preconditions", "postconditions", "steps",
   "severity", "priority", "type", "layer", "is_flaky"}
localPart(data) == [f \in LocalFields |-> data[f]]
\* the payload the same call builds when the remote record is other
payloadFor(other) ==
  IF script = "updateTestCase"
  THEN updateData(arg.config, arg.testCase, other, arg.suiteId)
  ELSE single_updateData(arg.config, arg.testCase, other, arg.suiteId)

\* C19: the payload's title, description, preconditions, postconditions,
\* steps, severity, priority, type, layer and is_flaky are the same whatever
\* the remote record is, and the title is the local test's.
C19_LocalFieldsFromLocalTest ==
  Updated =>
    /\ \A other \in ExistingCases : localPart(payloadFor(other)) = localPart(result[1])
    /\ result[1].title = arg.testCase.title
    /\ result[1].description = orEmpty(arg.testCase, "description")

\* a local test was sent over a remote record that differs from it in every
\* one of these fields
C19_Witness ==
  /\ script = "updateTestCase" /\ pc = "returned"
  /\ arg.testCase = LocalBase /\ arg.existingCase = RemoteBase
  /\ result[1].description = "d" /\ result[1].severity = 2

\* ---------------------------------------------------------------- C20
\* the values the remote record carries for field 2
carried(existing) ==
  IF "custom_fields" \notin DOMAIN existing THEN {}
  ELSE {existing.custom_fields[i].value :
          i \in {j \in 1..Len(existing.custom_fields) :
                   /\ existing.custom_fields[j].id = 2
                   /\ "value" \in DOMAIN existing.custom_fields[j]}}

\* C20: the payload's field 2 is the value the remote record carries for
\* field 2, and the payload has no field 2 when the record carries none.
C20_LastRunResultResent ==
  Updated =>
    IF carried(arg.existingCase) # {}
    THEN /\ 2 \in DOMAIN result[1].custom_field
         /\ result[1].custom_field[2] \in carried(arg.existingCase)
    ELSE 2 \notin DOMAIN result[1].custom_field

\* a record with the last run result "failed" was updated, and "failed" was
\* sent again
C20_Witness ==
  /\ script = "single_updateTestCase" /\ pc = "returned"
  /\ arg.existingCase = [RemoteBase EXCEPT !.custom_fields =
                                            <<Field(1, ID2), Field(2, "failed")>>]
  /\ 2 \in DOMAIN result[1].custom_field
  /\ result[1].custom_field[2] = "failed"

\* ---------------------------------------------------------------- C21
\* the log entries that settle test k: its update request, the bulk request
\* that carries it, or the message that its group is skipped
Settles(k) ==
  {i \in DOMAIN log : (IsWrite(log[i]) \/ log[i].kind = "skip") /\ Carries(log[i], k)}

\* C21: when a run of sync-to-qase ends, every test was classified, every test
\* was attempted or skipped with its group exactly once whatever failed before
\* it, and updated + created + failed is the number of tests classified.
C21_FailuresDoNotStopTheRun ==
  (script = "sync-to-qase" /\ pc = "done") =>
    /\ Len(toUpdate) + Len(toCreate) = Len(testCases)
    /\ \A k \in DOMAIN testCases : Cardinality(Settles(k)) = 1
    /\ totalUpdated + totalCreated + totalFailed = Len(toUpdate) + Len(toCreate)

\* a run ended in which a write request failed and a later one succeeded
C21_Witness ==
  /\ script = "sync-to-qase" /\ pc = "done"
  /\ \E i, j \in DOMAIN log :
       /\ i < j /\ IsWrite(log[i]) /\ ~log[i].ok /\ IsWrite(log[j]) /\ log[j].ok
  /\ totalFailed > 0 /\ totalUpdated + totalCreated > 0

\* ---------------------------------------------------------------- C22
\* C22: a run of sync-to-qase in which an update request or a bulk-create
\* request failed ends with an exit code other than 0.
C22_FailedCallMeansNonZeroExit ==
  (/\ script = "sync-to-qase" /\ pc = "done"
   /\ \E e \in Events : IsWrite(e) /\ ~e.ok)
    => exitCode # "0"

\* ---------------------------------------------------------------- C23
\* the pre-flight review was run and ended with a status other than 0
PreflightFailed ==
  /\ script = "full-sync" /\ ran # <<>>
  /\ ran[1].command = "review-test-standards.js" /\ ran[1].status # "0"

\* C23: after a failed pre-flight review without --force the pipeline has
\* ended with exit code 1 and the review is the only process it ran, which
\* wrote no file and sent no request; with --force the pipeline is at step 1,
\* and the next process it runs is generate-csv.js.
C23_PreflightFailureStops ==
  PreflightFailed =>
    IF ~options.force
    THEN /\ pc = "done" /\ exitCode = "1"
         /\ Len(ran) = 1 /\ ran[1].wrote = {} /\ ~ran[1].requests
    ELSE /\ Len(ran) = 1 => (pc = "step1" /\ exitCode = "")
         /\ Len(ran) >= 2 => ran[2].command = "generate-csv.js"

\* the review failed, no flag was given, and the pipeline ended with 1
C23_Witness ==
  /\ PreflightFailed /\ options = NoOptions
  /\ pc = "done" /\ exitCode = "1"

\* ---------------------------------------------------------------- C24
\* C24: with --update-only the pipeline runs the review and generate-csv.js
\* only, none of which sends a request, and never is at step 2 or later.
C24_UpdateOnlyStaysLocal ==
  (script = "full-sync" /\ options.updateOnly) =>
    /\ pc \in {"step0", "step1", "done"}
    /\ \A i \in DOMAIN ran :
         /\ ran[i].command \in {"review-test-standards.js", "generate-csv.js"}
         /\ ~ran[i].requests

\* a run with --update-only ended well after generate-csv.js --update wrote
\* the CSV
C24_Witness ==
  /\ script = "full-sync" /\ options.updateOnly /\ pc = "done" /\ exitCode = "0"
  /\ ran # <<>>
  /\ ran[Len(ran)].command = "generate-csv.js"
  /\ ran[Len(ran)].args = <<"--update">>
  /\ "csv" \in ran[Len(ran)].wrote

\* ---------------------------------------------------------------- C25
\* C25: with --skip-update no process of the pipeline is the annotation
\* update, and none writes a source test file.
C25_SkipUpdateLeavesSourceAlone ==
  (script = "full-sync" /\ options.skipUpdate) =>
    \A i \in DOMAIN ran :
      /\ ran[i].command # "update-qase-annotations.js"
      /\ "source" \notin ran[i].wrote

\* ---------------------------------------------------------------- C26
\* a request that changes the remote repository, or tries to
IsMutating(e) == IsRequest(e) /\ e.method \in {"POST", "PATCH", "DELETE"}

\* C26: between a mutating request of sync-to-qase and the next request of
\* the run a delay has elapsed.
C26_DelayAfterEachMutation ==
  script = "sync-to-qase" =>
    \A i, j \in DOMAIN log :
      (/\ i < j /\ IsMutating(log[i]) /\ IsRequest(log[j])
       /\ \A k \in (i + 1)..(j - 1) : ~IsRequest(log[k]))
        => \E k \in (i + 1)..(j - 1) : log[k].kind = "delay"

\* ---------------------------------------------------------------- C27
IsBulk(e) == IsRequest(e) /\ e.endpoint = "case/bulk"
Bulks == {i \in DOMAIN log : IsBulk(log[i])}
\* the container path of a bulk request: that of its first test
pathOf(e) == testCases[e.tests[1]].suite

\* C27: every bulk-create request carries tests of one container path only,
\* carries every test of the create list that has this path, and has as
\* suite_id the suite whose titles from the root down are the names of the
\* path; no two bulk requests of a run are for the same path.
C27_OneBulkPerPath ==
  (script = "sync-to-qase" /\ pc # "main") =>
    /\ \A i \in Bulks :
         /\ log[i].tests # <<>>
         /\ \A n \in DOMAIN log[i].tests : testCases[log[i].tests[n]].suite = pathOf(log[i])
         /\ \A n \in DOMAIN toCreate :
              testCases[toCreate[n].testCase].suite = pathOf(log[i])
                => Carries(log[i], toCreate[n].testCase)
         /\ chainTitles(remoteSuites, log[i].suite_id) = parseSuitePath(pathOf(log[i]))
    /\ \A i, j \in Bulks : i # j => pathOf(log[i]) # pathOf(log[j])

\* a run ended with two bulk requests, one of them carrying two tests
C27_Witness ==
  /\ script = "sync-to-qase" /\ pc = "done"
  /\ \E i, j \in Bulks : i # j /\ Len(log[i].tests) >= 2

\* ---------------------------------------------------------------- C28
\* the file with the annotation of every test that has a mapping entry set to
\* the mapped id, and every other declaration as it was
mappedId(d, mapping) ==
  IF d.kind = "test" /\ d.id \in DOMAIN mapping THEN mapping[d.id] ELSE Null
annotated(ds, mapping) ==
  [k \in DOMAIN ds |->
     IF mappedId(ds[k], mapping) = Null THEN ds[k]
     ELSE [ds[k] EXCEPT !.qaseId = toString(mappedId(ds[k], mapping))]]
NotBlank(a) == a \notin WS
Squeeze(s) == SelectSeq(s, NotBlank)
FileUpdated == script = "extract-tests" /\ firstScan # <<>>

\* C28: after updateFile(file, mapping) every test with a mapping entry has
\* qase.id(mapping[identifier]) as the first statement of its own body, and
\* everything else in the file, the annotations of the other tests included,
\* is as it was (white space apart).
C28_AnnotationInOwnBody ==
  FileUpdated =>
    Squeeze(fileContent) = Squeeze(Render(annotated(source, qaseIdMapping)))

\* the same, for files where no test without an annotation is followed by an
\* annotated test, every test title is in single or double quotes and every
\* test body is closed
NoLaterAnnotation(ds) ==
  \A k, m \in testDecls(ds) : (k < m /\ ds[k].qaseId = <<>>) => ds[m].qaseId = <<>>
C28_AnnotationInOwnBody_Apart ==
  (FileUpdated /\ NoLaterAnnotation(source)
   /\ \A k \in testDecls(source) :
        source[k].quote # BACKTICK /\ source[k].fn # "unclosed")
    => Squeeze(fileContent) = Squeeze(Render(annotated(source, qaseIdMapping)))

\* ---------------------------------------------------------------- C29
\* C29: when updateFile rewrites the file it has first written the backup,
\* holding the content the file had before; when no annotation changes it
\* writes neither; nothing is written before updateFile runs.
C29_BackupBeforeRewrite ==
  script = "extract-tests" =>
    IF FileUpdated /\ fileContent # Render(source)
    THEN written = <<Write("file.backup", Render(source)), Write("file", fileContent)>>
    ELSE written = <<>> /\ fileContent = Render(source)

\* updateFile has rewritten a file, replacing one annotation
C29_Witness ==
  /\ FileUpdated /\ Len(written) = 2
  /\ \E k \in testDecls(source) : source[k].qaseId # <<>>
  /\ Len(fileContent) = Len(Render(source))

\* updateFile has run and left the file alone though a mapping entry exists
C29_Unchanged ==
  /\ FileUpdated /\ written = <<>>
  /\ \E k \in testDecls(source) :
       /\ mappedId(source[k], qaseIdMapping) # Null
       /\ source[k].qaseId = toString(mappedId(source[k], qaseIdMapping))

\* ---------------------------------------------------------------- C30
\* C30: for a remote set of any size that stays as it is, sizes 0 and exact
\* multiples of the page size included, the fetch loop ends, and when no
\* request was rejected it has collected every remote entity exactly once,
\* in the order of the service.
C30_FetchEndsComplete ==
  /\ <>(pc = "returned")
  /\ [](pc = "returned" /\ result[1].ok => allEntities = arg /\ result[1].entities = arg)

\* a fetch of exactly two full pages has ended: the third page was empty
C30_Witness ==
  /\ script \in {"getSuites", "getExistingCases"} /\ pc = "returned"
  /\ result[1].ok /\ Len(arg) = 2 * limit /\ offset = 2 * limit
  /\ Len(allEntities) = 2 * limit

\* ---------------------------------------------------------------- C31
\* what the command line asks for: the mode flag given last, --yes or -y
\* against --dry-run, the preview when none is given; the --min-age given last
modeFlags(args) == SelectSeq(args, LAMBDA a : a \in {YES, YES_SHORT, DRY_RUN})
ageFlags(args) == SelectSeq(args, LAMBDA a : a # <<>> /\ Head(a) = "--min-age=")
yesIsEffective(args) ==
  modeFlags(args) # <<>> /\ modeFlags(args)[Len(modeFlags(args))] # DRY_RUN
minAgeAsked(args) ==
  IF ageFlags(args) = <<>> THEN <<"0">>
  ELSE Tail(ageFlags(args)[Len(ageFlags(args))])
Range(f) == {f[x] : x \in DOMAIN f}
Deletes == {i \in DOMAIN log : IsRequest(log[i]) /\ log[i].method = "DELETE"}
snapshotOf(id) == CHOOSE suite \in Range(existingSuites) : suite.id = id

\* C31: cleanup-empty-suites sends DELETE only when --yes (or -y) is the
\* effective mode, and only for suites that in the snapshot taken at the start
\* have cases_count 0, no child suite and an age of at least --min-age days.
C31_DeletesOnlyEmptyOldLeaves ==
  script = "cleanup-empty-suites" =>
    \A i \in Deletes :
      /\ yesIsEffective(arg)
      /\ \E suite \in Range(existingSuites) : suite.id = log[i].id
      /\ snapshotOf(log[i].id).cases_count = 0
      /\ \A suite \in Range(existingSuites) : suite.parent_id # log[i].id
      /\ minAgeAsked(arg) = <<"0">> \/ minAgeAsked(arg) = <<"7">>
      /\ minAgeAsked(arg) = <<"7">> => snapshotOf(log[i].id).age >= 7

\* with --min-age=7 --yes a run has deleted an old empty leaf and kept a young
\* one that is empty too
C31_Witness ==
  /\ script = "cleanup-empty-suites" /\ pc = "done"
  /\ arg = <<MinAge(<<"7">>), YES>>
  /\ \E i \in Deletes : log[i].ok
  /\ \E suite \in Range(remoteSuites) : suite.cases_count = 0 /\ suite.age < 7

\* ---------------------------------------------------------------- C32
\* the steps of the local test, an absent list being the empty one
localSteps(testCase) == IF "steps" \in DOMAIN testCase THEN testCase.steps ELSE <<>>
\* the step list the claim describes: one entry per local step, in order
stepsAsListed(testCase) ==
  [i \in DOMAIN localSteps(testCase) |->
     [action |-> localSteps(testCase)[i].action,
      expected_result |-> localSteps(testCase)[i].expected_result,
      position |-> i]]

\* (the two actions are compared as written out: what is sent may be an
\* object where the local action is a text)
\* C32: the payload's step list has the length and the order of the local
\* step list: the step at index i (from 0) is sent with position i + 1 and
\* with the action and the expected result of that local step.
C32_StepsKeepOrderAndContent ==
  Updated =>
    /\ Len(result[1].steps) = Len(localSteps(arg.testCase))
    /\ \A i \in DOMAIN result[1].steps :
         /\ result[1].steps[i].position = i
         /\ result[1].steps[i].expected_result
              = localSteps(arg.testCase)[i].expected_result
         /\ ToString(result[1].steps[i].action)
              = ToString(localSteps(arg.testCase)[i].action)

\* the same, for local tests whose steps all have an action
C32_StepsKeepOrderAndContent_Apart ==
  (Updated /\ \A i \in DOMAIN localSteps(arg.testCase) :
                localSteps(arg.testCase)[i].action # "")
    => result[1].steps = stepsAsListed(arg.testCase)

\* ---------------------------------------------------------------- C33
\* the file as the first run of updateFile left it
afterFirst == IF written = <<>> THEN Render(source) ELSE written[2].content

\* C33: a second run of updateFile on the result of the first, with the same
\* mapping, changes nothing: it replaces nothing, inserts nothing and writes
\* no backup.
C33_UpdateFileIdempotent ==
  (script = "extract-tests" /\ pc = "updated") =>
    /\ Len(written) <= 2
    /\ fileContent = afterFirst

\* the same, for files where no test without an annotation is followed by an
\* annotated test
C33_UpdateFileIdempotent_Apart ==
  (script = "extract-tests" /\ pc = "updated" /\ NoLaterAnnotation(source)) =>
    /\ Len(written) <= 2
    /\ fileContent = afterFirst

\* ---------------------------------------------------------------- C34
PathsReturned == script = "extractNestedDescribePath" /\ pc = "returned"

\* C34: for one file and one identifier, extractNestedDescribePath of
\* update-qase-annotations.js finds the same group names, in the same order,
\* as extractNestedDescribePath of extract-tests.js.
C34_SamePathInBothScripts ==
  PathsReturned => result[1].update = result[1].extract

\* the same, for files in which no group closes before the test
C34_SamePathInBothScripts_Apart ==
  (PathsReturned
   /\ \E ds \in Nested \cup Outside \cup Forms :
        arg.fileContent = Render(ds)
        /\ \A k \in DOMAIN ds :
             ds[k].kind = "close" => \A m \in k..Len(ds) : ds[m].kind = "close")
    => result[1].update = result[1].extract

\* ---------------------------------------------------------------- C35
RECURSIVE resolveFrom(_, _, _)
\* ensureSuiteHierarchy of sync-to-qase.js with every request answered: the
\* leaf id and the suite list it leaves (a new suite gets the next id)
resolveFrom(suites, suiteNames, parentId) ==
  IF suiteNames = <<>> THEN [id |-> parentId, suites |-> suites]
  ELSE LET f == findSuite(suites, Head(suiteNames), parentId)
           newId == Len(suites) + 1
       IN IF f # 0 THEN resolveFrom(suites, Tail(suiteNames), suites[f].id)
          ELSE resolveFrom(pushSuite(suites, Suite(newId, Head(suiteNames), parentId)),
                           Tail(suiteNames), newId)

\* the suites that were there when the run began
suitesBefore == SubSeq(remoteSuites, 1, Len(remoteSuites) - Cardinality(SuitePosts))
singleTarget == testCases[targetCase(testCases, resolveTestId(target, testCases))]
SingleSent ==
  /\ script = "sync-single-case" /\ pc = "done" /\ failures = 0
  /\ \E i \in DOMAIN log : IsWrite(log[i])

\* C35: for one local test and one remote suite list, sync-single-case sends
\* the suite_id sync-to-qase sends and leaves the suites sync-to-qase leaves.
C35_SingleResolvesAsBulk ==
  SingleSent =>
    \E bulk \in {resolveFrom(suitesBefore, parseSuitePath(singleTarget.suite), Null)} :
      /\ \A i \in DOMAIN log : IsWrite(log[i]) => log[i].suite_id = bulk.id
      /\ remoteSuites = bulk.suites

\* the same, for tests in one group only
C35_SingleResolvesAsBulk_Apart ==
  (SingleSent /\ Len(singleTarget.groups) = 1 /\ singleTarget.groups # <<AgtB>>) =>
    \E bulk \in {resolveFrom(suitesBefore, parseSuitePath(singleTarget.suite), Null)} :
      /\ \A i \in DOMAIN log : IsWrite(log[i]) => log[i].suite_id = bulk.id
      /\ remoteSuites = bulk.suites

\* sync-to-qase sends what resolveFrom gives for the first group of a run in
\* which every request was answered
ResolveFromIsEnsure ==
  (script = "sync-to-qase" /\ run = 1 /\ failures = 0) =>
    \A i \in DOMAIN log :
      (log[i].kind = "resolved" /\ \A j \in 1..(i - 1) : log[j].kind # "resolved")
        => log[i].id = resolveFrom(SubSeq(remoteSuites, 1, Len(remoteSuites) - Cardinality(SuitePosts)),
                                   parseSuitePath(log[i].path), Null).id

\* ---------------------------------------------------------------- C36
RECURSIVE createdUpTo(_)
\* the number of cases the successful bulk requests of the log created
createdUpTo(i) ==
  IF i = 0 THEN 0
  ELSE createdUpTo(i - 1)
       + (IF IsBulk(log[i]) /\ log[i].ok THEN Len(log[i].tests) ELSE 0)
casesBefore == SubSeq(remoteCases, 1, Len(remoteCases) - createdUpTo(Len(log)))
ListFailed ==
  \E i \in DOMAIN log : IsRequest(log[i]) /\ log[i].method = "GET" /\ ~log[i].ok
\* the remote record the matching of main would take for the test: the one
\* with its qase.id() value, or one with its title (the title a record had
\* when the run began: a record the run has updated is left out)
Patched == {log[i].id : i \in {j \in DOMAIN log : IsWrite(log[j]) /\ log[j].method = "PATCH"}}
hasCounterpart(tc) ==
  \E c \in Range(casesBefore) :
    \/ c.title = tc.title /\ c.id \notin Patched
    \/ tc.qase_id # Null /\ c.id = tc.qase_id
FirstRunWithFailedList == script = "sync-to-qase" /\ run = 1 /\ ListFailed

\* C36: when the fetch of the remote suites or of the remote cases failed, the
\* run creates no suite that was there already (same title, same parent) and
\* no case for a test that has a remote record.
C36_FailedFetchCreatesNoDuplicate ==
  FirstRunWithFailedList =>
    \A i \in DOMAIN log :
      /\ (IsRequest(log[i]) /\ log[i].method = "POST" /\ log[i].endpoint = "suite")
           => ~\E st \in Range(suitesBefore) :
                 st.title = log[i].title /\ st.parent_id = log[i].suite_id
      /\ IsBulk(log[i])
           => \A n \in DOMAIN log[i].tests : ~hasCounterpart(testCases[log[i].tests[n]])

\* the same, for runs in which both lists were fetched
C36_CreatesNoDuplicate_Fetched ==
  (script = "sync-to-qase" /\ run = 1 /\ ~ListFailed) =>
    \A i \in DOMAIN log :
      /\ (IsRequest(log[i]) /\ log[i].method = "POST" /\ log[i].endpoint = "suite")
           => ~\E st \in Range(suitesBefore) :
                 st.title = log[i].title /\ st.parent_id = log[i].suite_id
      /\ IsBulk(log[i])
           => \A n \in DOMAIN log[i].tests : ~hasCounterpart(testCases[log[i].tests[n]])

\* ---------------------------------------------------------------- C37
\* C37: in one run no two local tests with different identifiers are in the
\* update list with the same remote record: the match from the local tests
\* to the remote records is injective.
C37_MatchIsInjective ==
  script = "sync-to-qase" =>
    \A i, j \in DOMAIN toUpdate :
      testCases[toUpdate[i].testCase].id # testCases[toUpdate[j].testCase].id
        => toUpdate[i].existing.id # toUpdate[j].existing.id

\* the same, for local tests without a qase.id() annotation and with titles
\* of their own
C37_MatchIsInjective_Apart ==
  (/\ script = "sync-to-qase"
   /\ \A k, m \in DOMAIN testCases :
        /\ testCases[k].qase_id = Null
        /\ k # m => testCases[k].title # testCases[m].title) =>
    \A i, j \in DOMAIN toUpdate :
      i # j => toUpdate[i].existing.id # toUpdate[j].existing.id


RECURSIVE matchesFrom(_, _)
\* the positions idPattern matches in a file, in the order of the while loop
matchesFrom(s, from) ==
  LET m == idPattern_exec(s, from)
  IN IF m = 0 THEN <<>> ELSE <<m>> \o matchesFrom(s, titleEnd(s, m) + 1)

\* the entries of the two returned lists that carry an identifier (the error
\* list names an empty identifier as ScanError does)
entriesOf(testId) ==
  Cardinality({k \in DOMAIN Returned : Returned[k].id = testId})
    + Cardinality({k \in DOMAIN ReturnedErrors : ReturnedErrors[k].testId = ScanError(testId, <<>>).testId})
\* the matches of the scanned file that carry an identifier
matchesOf(ms, testId) ==
  Cardinality({k \in DOMAIN ms : matchId(fileContent, ms[k]) = testId})

\* C38: every declaration scanTestFiles matches is in exactly one of its two
\* results: when the scan has returned, each matched identifier has as many
\* entries in the returned test list and the returned error list together as
\* the pattern matched it, and the two lists hold nothing else
C38_EveryMatchIsListedOnce ==
  (script = "extract-tests" /\ pc = "returned") =>
    \E ms \in {matchesFrom(fileContent, 1)} :
      /\ Len(Returned) + Len(ReturnedErrors) = Len(ms)
      /\ \A k \in DOMAIN ms :
           entriesOf(matchId(fileContent, ms[k]))
             = matchesOf(ms, matchId(fileContent, ms[k]))

\* the same statement for files where the body of every matched declaration can
\* be delimited
C38_EveryMatchIsListedOnce_Apart ==
  (/\ script = "extract-tests" /\ pc = "returned"
   /\ \A k \in DOMAIN matchesFrom(fileContent, 1) :
        extractTestContent(fileContent,
                           matchId(fileContent, matchesFrom(fileContent, 1)[k])) # <<>>)
    => C38_EveryMatchIsListedOnce


\* the tests of the local scan that the argument of sync-single-case names: by
\* qase.id() value for an argument in the project-number form, by identifier
\* otherwise
namedTests ==
  {k \in DOMAIN testCases :
     IF target.qaseForm
     THEN testCases[k].qase_id # Null /\ testCases[k].qase_id = target.n
     ELSE testCases[k].id = target.text}
targetAbsent == namedTests = {}
\* no remote record carries the identifier of the named test, in its
\* custom-identifier field or at the start of its title
noRemoteMatch ==
  /\ ~targetAbsent
  /\ \A i \in DOMAIN remoteCases :
       /\ remoteCases[i].custom_id # testCases[Min(namedTests)].id
       /\ (remoteCases[i].title = <<>>
           \/ remoteCases[i].title[1] # testCases[Min(namedTests)].id)
Mutating(e) == IsRequest(e) /\ e.method # "GET"
CreatesCase(e) ==
  IsRequest(e) /\ e.method = "POST" /\ e.endpoint \in {"case", "case/bulk"}

\* C39: sync-single-case.js never creates a case; when the target test is
\* absent from the local scan or no remote record matches its identifier, it
\* issues no mutating remote call (no suite creation, no case update) and, once
\* it has ended, its exit code is not zero
C39_NoWriteWithoutTarget ==
  script = "sync-single-case" =>
    /\ \A i \in DOMAIN log : ~CreatesCase(log[i])
    /\ (targetAbsent \/ noRemoteMatch) =>
         /\ \A i \in DOMAIN log : ~Mutating(log[i])
         /\ exitCode # "0"
         /\ pc = "done" => exitCode = "1"

\* C39 witness: a run over a repository that has records, none of them the
\* target's, fetched the cases, and ended with exit code 1
C39_Witness ==
  /\ script = "sync-single-case" /\ pc = "done" /\ exitCode = "1"
  /\ noRemoteMatch /\ remoteCases # <<>>
  /\ \E i \in DOMAIN log :
       IsRequest(log[i]) /\ log[i].endpoint = "case" /\ log[i].method = "GET"
         /\ log[i].ok
\* a run whose target is absent from the scan ended with exit code 1
C39_Witness_Absent ==
  /\ script = "sync-single-case" /\ pc = "done" /\ exitCode = "1"
  /\ targetAbsent /\ testCases # <<>> /\ log = <<>>
\* a run whose target has a remote record created a suite and updated the case
C39_Witness_Writes ==
  /\ script = "sync-single-case" /\ pc = "done" /\ exitCode = "0"
  /\ \E i, j \in DOMAIN log :
       /\ Mutating(log[i]) /\ log[i].endpoint = "suite"
       /\ Mutating(log[j]) /\ log[j].endpoint = "case"

====
